---- MODULE Spec2Model ----
(***************************************************************************)
(* A model of the Mash lighting layer: MashLightSet (mash-light-set.c),    *)
(* the MashLight base class and its directional, point and spot variants   *)
(* (mash-light.c, mash-directional-light.c, mash-point-light.c,            *)
(* mash-spot-light.c) and the paint path of MashModel (mash-model.c).      *)
(*                                                                         *)
(* One light set is shared by the models.  Shader text is a sequence of    *)
(* tokens; a token is a piece of GLSL text together with the per-light     *)
(* symbol that replaced its '$'.  The light set resolves its uniforms       *)
(* with Cogl's pipeline API, the lights with Cogl's program API.           *)
(***************************************************************************)
EXTENDS Integers, Sequences, FiniteSets, TLC

\* ------------------------------------------------------------------ bounds

\* The longest list of lights a light set is given.
MaxLights == 2
\* The snippets of a pipeline are counted up to this number ("or more").
MaxSnippets == 1
\* Material shininess runs over -MaxShininess..MaxShininess units.
MaxShininess == 20

\* The scene: two lights, two models that share the light set, each model
\* with the pipeline mash_model_init gave it, one texture layer index.
Lights == {1, 2}
Models == {1, 2}
Pipelines == {1, 2}
LayerIdx == {0}

\* ------------------------------------------------------- program constants

COGL_INVALID_HANDLE == 0
MASH_LIGHT_COLOR_AMBIENT == 0
MASH_LIGHT_COLOR_DIFFUSE == 1
MASH_LIGHT_COLOR_SPECULAR == 2
MASH_LIGHT_COLOR_COUNT == 3
MASH_LIGHT_UNIQUE_SYMBOL_SIZE == 9

\* A ClutterColor is its four bytes read as one little-endian 32-bit integer;
\* the default colour { 0xff, 0xff, 0xff, 0xff } is -1.
mash_light_default_color == -1
ColourValues == {mash_light_default_color, 0}

\* Shininess values are counted in units of 0.00001, so 0.0001 is 10.
ShininessEpsilon == 10
ShininessValues == (0 - MaxShininess)..MaxShininess

Kinds == {"directional", "point", "spot"}

\* Actor ids the lights are given where the id matters.
GidValues == {1, 12345678, 10000000, 100000000}

\* ----------------------------------------------------------------- helpers

Max(a, b) == IF a > b THEN a ELSE b

RECURSIVE DecimalDigits(_)
\* The decimal digits of n, most significant first ("%u").
DecimalDigits(n) ==
  IF n < 10 THEN <<n>> ELSE Append(DecimalDigits(n \div 10), n % 10)

\* "%08u": at least eight digits, zero padded on the left.
ZeroPad8(ds) ==
  IF Len(ds) >= 8 THEN ds ELSE [i \in 1..(8 - Len(ds)) |-> 0] \o ds

RECURSIVE Remove1(_, _)
\* The list without its first entry that is x (identity comparison).
Remove1(s, x) ==
  IF s = <<>> THEN <<>>
  ELSE IF Head(s) = x THEN Tail(s)
  ELSE <<Head(s)>> \o Remove1(Tail(s), x)

Range(s) == {s[i] : i \in 1..Len(s)}

RECURSIVE SetToSortedSeq(_)
\* cogl_pipeline_foreach_layer visits the layers in ascending index order.
SetToSortedSeq(S) ==
  IF S = {} THEN <<>>
  ELSE LET m == CHOOSE x \in S : \A y \in S : x <= y
       IN <<m>> \o SetToSortedSeq(S \ {m})

\* ------------------------------------------------------------ shader text

\* A token of shader source: a piece of GLSL text and what was substituted
\* into it (a light's unique symbol for '$', or a layer index for "%i").
\* Dollar marks a '$' that has not been substituted yet.
Dollar == <<-1>>
Tok(text, subst) == [text |-> text, subst |-> subst]

mash_light_color_names == <<"ambient_light", "diffuse_light", "specular_light">>

BaseUniformNames ==
  <<"ambient_light", "diffuse_light", "specular_light", "light_direction",
    "attenuation", "light_eye_coord", "spot_cos_cutoff", "spot_exponent",
    "spot_direction">>

PowMashMaterial == "spec_power$ = pow (spec_factor$, mash_material.shininess)"
PowFrontMaterial == "spec_power$ = pow (spec_factor$, gl_FrontMaterial.shininess)"

mash_directional_light_shader ==
  << Tok("vec3 lit_color$ = mash_material.ambient.rgb * ambient_light$", Dollar),
     Tok("float diffuse_factor$ = max (0.0, dot (light_direction$, normal))", Dollar),
     Tok(PowMashMaterial, Dollar),
     Tok("cogl_color_out.xyz += lit_color$", Dollar) >>

mash_point_light_shader ==
  << Tok("vec3 light_vec$ = light_eye_coord$ - eye_coord", Dollar),
     Tok("vec3 lit_color$ = gl_FrontMaterial.ambient.rgb * ambient_light$", Dollar),
     Tok(PowFrontMaterial, Dollar),
     Tok("lit_color$ /= dot (attenuation$, vec3 (1.0, d$, d$ * d$))", Dollar),
     Tok("gl_FrontColor.xyz += lit_color$", Dollar) >>

\* The test of the spot shader that guards everything the light adds, and
\* what it decides for a vertex.
ConeToken == "if (spot_cos$ > spot_cos_cutoff$)"

ConeTestAsBug(spot_cos, spot_cos_cutoff) == spot_cos >= spot_cos_cutoff

ConeTest(spot_cos, spot_cos_cutoff) == spot_cos > spot_cos_cutoff

\* The statements of one light's shader that run for a vertex: all of them
\* when there is no cone test or the test passes, else those before it (the
\* block of the test extends to the end of the light's shader).
Executed(shader, spot_cos, spot_cos_cutoff) ==
  LET tests == { i \in 1..Len(shader) : shader[i].text = ConeToken }
  IN IF tests = {} \/ ConeTest(spot_cos, spot_cos_cutoff) THEN shader
     ELSE SubSeq(shader, 1, (CHOOSE i \in tests : \A j \in tests : i <= j) - 1)

\* cosf (spot_cutoff * G_PI / 180.0) in thousandths, for the cutoffs of 0, 45
\* and 90 degrees.
cosf(degrees) == CASE degrees = 0 -> 1000 [] degrees = 45 -> 707 [] degrees = 90 -> 0

mash_spot_light_shader ==
  << Tok("vec3 light_vec$ = light_eye_coord$ - eye_coord", Dollar),
     Tok(ConeToken, Dollar),
     Tok("vec3 lit_color$ = gl_FrontMaterial.ambient.rgb * ambient_light$", Dollar),
     Tok(PowFrontMaterial, Dollar),
     Tok("float att = dot (attenuation$, vec3 (1.0, d$, d$ * d$))", Dollar),
     Tok("att *= pow (spot_cos$, spot_exponent$)", Dollar),
     Tok("gl_FrontColor.xyz += lit_color$ * att", Dollar) >>

\* What one light's shader adds to gl_FrontColor for a vertex at distance d
\* inside the cone, as a fraction: lit_color is the colour before the
\* attenuation, attenuation the three coefficients and spot_pow the value of
\* pow (spot_cos$, spot_exponent$).  The point shader divides lit_color by
\* the dot product; the spot shader stores the dot product in att,
\* multiplies att by the power and adds lit_color$ * att.
Contribution(shader, lit_color, attenuation, d, spot_pow) ==
  LET has(text) == \E i \in 1..Len(shader) : shader[i].text = text
      dot == attenuation[1] + attenuation[2] * d + attenuation[3] * d * d
  IN IF has("lit_color$ /= dot (attenuation$, vec3 (1.0, d$, d$ * d$))")
     THEN [num |-> lit_color, den |-> dot]
     ELSE IF has("float att = dot (attenuation$, vec3 (1.0, d$, d$ * d$))")
             /\ has("att *= pow (spot_cos$, spot_exponent$)")
             /\ has("gl_FrontColor.xyz += lit_color$ * att")
     THEN [num |-> lit_color * dot * spot_pow, den |-> 1]
     ELSE [num |-> lit_color, den |-> 1]

\* The material field a token's pow() reads its exponent from ("" if the
\* token has no specular term).
ExponentOperand(tok) ==
  IF tok.text = PowMashMaterial THEN "mash_material.shininess"
  ELSE IF tok.text = PowFrontMaterial THEN "gl_FrontMaterial.shininess"
  ELSE ""

\* ------------------------------------------------------- uniform locations

\* cogl_pipeline_get_uniform_location returns the index of the name in the
\* context-wide table of uniform names: it is the same for every pipeline
\* and never -1.  The fixed names come first, then the per-light names.
NormalMatrixLocation == 0
MaterialLocation(i) == i

RECURSIVE SymValue(_)
SymValue(ds) == IF ds = <<>> THEN 0 ELSE 10 * SymValue(SubSeq(ds, 1, Len(ds) - 1)) + ds[Len(ds)]

BaseNameIndex(name) == CHOOSE i \in 1..Len(BaseUniformNames) : BaseUniformNames[i] = name

\* The handle cogl_create_program gives the light box.
BoxProgram == 4

\* The other handles of the model are pipelines, not programs.
cogl_is_program(h) == h = BoxProgram

\* Cogl's program API answers -1 for a handle that is not a program, and
\* the index of the name otherwise.
cogl_program_get_uniform_location(program, name_index) ==
  IF cogl_is_program(program) THEN name_index ELSE -1

\* The name looked up is uniform_name followed by the light's unique_str.
mash_light_get_uniform_location(lt, program, uniform_name) ==
  cogl_program_get_uniform_location(program,
    5 + BaseNameIndex(uniform_name) + 16 * SymValue(lt.unique_str))

\* ------------------------------------------------------------------ lights

AllColors == 0..(MASH_LIGHT_COLOR_COUNT - 1)

\* g_snprintf (unique_str, MASH_LIGHT_UNIQUE_SYMBOL_SIZE + 1, "g%08u", gid):
\* the 'g' and then as many digits as fit in the remaining eight characters.
FormatUniqueStr(gid) ==
  SubSeq(ZeroPad8(DecimalDigits(gid)), 1, MASH_LIGHT_UNIQUE_SYMBOL_SIZE - 1)

\* mash_light_init followed by the init of the concrete class.
mash_light_init(k, gid) ==
  [ kind |-> k,
    gid |-> gid,             \* clutter_actor_get_gid of the light actor
    unique_str |-> FormatUniqueStr(gid),
    light_colors |-> [i \in AllColors |-> mash_light_default_color],
    uniform_locations |-> [i \in AllColors |-> 0],
    uniform_locations_dirty |-> TRUE,
    dirty_uniforms |-> AllColors,
    dl_uniform_locations_dirty |-> (k = "directional"),
    pl_uniform_locations_dirty |-> (k \in {"point", "spot"}),
    attenuation_dirty |-> (k \in {"point", "spot"}),
    sl_uniform_locations_dirty |-> (k = "spot"),
    spot_params_dirty |-> (k = "spot"),
    spot_cutoff |-> 45,      \* degrees; only a spot light uses it
    attenuation |-> 1,       \* the constant attenuation of a point light
    \* the uniform locations the subclasses cache, zero until resolved
    dl_light_direction_uniform_location |-> 0,
    attenuation_uniform_location |-> 0,
    light_eye_coord_uniform_location |-> 0,
    spot_cos_cutoff_uniform_location |-> 0,
    spot_exponent_uniform_location |-> 0,
    sl_light_direction_uniform_location |-> 0,
    ref_count |-> 1,         \* GObject's count; the scene owns the first
    \* the product of the transformation matrices of the actor and of its
    \* ancestors, as a number: 1 is the identity
    transform |-> 1,
    modelview_matrix |-> 0,  \* the cached matrix, zeroed until computed
    modelview_matrix_dirty |-> TRUE ]

\* Every '$' of the snippet becomes the light's unique_str.
mash_light_append_shader(lt, shader_source, snippet) ==
  shader_source \o
    [i \in 1..Len(snippet) |->
       IF snippet[i].subst = Dollar THEN Tok(snippet[i].text, lt.unique_str)
       ELSE snippet[i]]

\* A generate_shader result: the light and the two sources after the call.
Gen(lt, us, ms) == [light |-> lt, uniform_source |-> us, main_source |-> ms]

mash_light_real_generate_shader(lt, us, ms) ==
  Gen([lt EXCEPT !.uniform_locations_dirty = TRUE,
                 !.dirty_uniforms = AllColors],
      mash_light_append_shader(lt, us,
        << Tok("ambient_light", Dollar), Tok("diffuse_light", Dollar),
           Tok("specular_light", Dollar) >>),
      ms)

mash_directional_light_generate_shader(lt, us, ms) ==
  LET g == mash_light_real_generate_shader(lt, us, ms)
  IN Gen([g.light EXCEPT !.dl_uniform_locations_dirty = TRUE],
         mash_light_append_shader(lt, g.uniform_source,
           << Tok("light_direction", Dollar) >>),
         mash_light_append_shader(lt, g.main_source,
           mash_directional_light_shader))

mash_point_light_generate_shader(lt, us, ms) ==
  LET g == mash_light_real_generate_shader(lt, us, ms)
  IN Gen([g.light EXCEPT !.pl_uniform_locations_dirty = TRUE,
                         !.attenuation_dirty = TRUE],
         mash_light_append_shader(lt, g.uniform_source,
           << Tok("attenuation", Dollar), Tok("light_eye_coord", Dollar) >>),
         mash_light_append_shader(lt, g.main_source, mash_point_light_shader))

mash_spot_light_generate_shaderAsBug(lt, us, ms) ==
  LET old_len == Len(ms)
      g == mash_point_light_generate_shader(lt, us, ms)
      trimmed == SubSeq(g.main_source, 1, old_len)
  IN Gen([g.light EXCEPT !.spot_params_dirty = TRUE],
         mash_light_append_shader(lt, g.uniform_source,
           << Tok("spot_cos_cutoff", Dollar), Tok("spot_exponent", Dollar),
              Tok("spot_direction", Dollar) >>),
         mash_light_append_shader(lt, trimmed, mash_spot_light_shader))

mash_spot_light_generate_shaderUntrimmed(lt, us, ms) ==
  LET g == mash_point_light_generate_shader(lt, us, ms)
  IN Gen([g.light EXCEPT !.sl_uniform_locations_dirty = TRUE,
                         !.spot_params_dirty = TRUE],
         mash_light_append_shader(lt, g.uniform_source,
           << Tok("spot_cos_cutoff", Dollar), Tok("spot_exponent", Dollar),
              Tok("spot_direction", Dollar) >>),
         mash_light_append_shader(lt, g.main_source, mash_spot_light_shader))

\* old_len is taken before the parent runs; g_string_set_size cuts the main
\* source back to it, the uniform source is not cut.
mash_spot_light_generate_shader(lt, us, ms) ==
  LET old_len == Len(ms)
      g == mash_point_light_generate_shader(lt, us, ms)
      trimmed == SubSeq(g.main_source, 1, old_len)
  IN Gen([g.light EXCEPT !.sl_uniform_locations_dirty = TRUE,
                         !.spot_params_dirty = TRUE],
         mash_light_append_shader(lt, g.uniform_source,
           << Tok("spot_cos_cutoff", Dollar), Tok("spot_exponent", Dollar),
              Tok("spot_direction", Dollar) >>),
         mash_light_append_shader(lt, trimmed, mash_spot_light_shader))

\* The virtual call.
mash_light_generate_shader(lt, us, ms) ==
  CASE lt.kind = "directional" -> mash_directional_light_generate_shader(lt, us, ms)
    [] lt.kind = "point" -> mash_point_light_generate_shader(lt, us, ms)
    [] lt.kind = "spot" -> mash_spot_light_generate_shader(lt, us, ms)

\* An upload: a call of cogl_pipeline_set_uniform_* by the light set or of
\* cogl_program_set_uniform_* by a light, with its location.  what names the
\* quantity uploaded; val is its value where the model tracks one, else 0.
Upload(slot, what, val) == [slot |-> slot, what |-> what, val |-> val]

\* An update_uniforms result: the light after the call and what it uploaded.
Upd(lt, ups) == [light |-> lt, uploads |-> ups]

\* The cached matrix is handed out whatever the flag says.
mash_light_get_modelview_matrixAsBug(lt) ==
  [light |-> lt, matrix |-> lt.modelview_matrix]

\* The matrix is computed from the actor and its ancestors only when the
\* flag is set; the flag is then cleared and the cached matrix handed out.
mash_light_get_modelview_matrix(lt) ==
  LET matrix == IF lt.modelview_matrix_dirty THEN lt.transform
                ELSE lt.modelview_matrix
  IN [light |-> [lt EXCEPT !.modelview_matrix = matrix,
                           !.modelview_matrix_dirty = FALSE],
      matrix |-> matrix]

mash_light_real_update_uniformsAsBug(lt, program) ==
  LET locs == [i \in AllColors |->
                 mash_light_get_uniform_location(lt, program, mash_light_color_names[i + 1])]
  IN Upd([lt EXCEPT !.modelview_matrix_dirty = TRUE,
                    !.uniform_locations = locs,
                    !.uniform_locations_dirty = FALSE,
                    !.dirty_uniforms = {}],
         { Upload(locs[i], mash_light_color_names[i + 1], lt.light_colors[i])
             : i \in AllColors })

mash_light_real_update_uniforms(lt, program) ==
  LET locs == IF lt.uniform_locations_dirty
              THEN [i \in AllColors |->
                      mash_light_get_uniform_location(lt, program, mash_light_color_names[i + 1])]
              ELSE lt.uniform_locations
  IN Upd([lt EXCEPT !.modelview_matrix_dirty = TRUE,
                    !.uniform_locations = locs,
                    !.uniform_locations_dirty = FALSE,
                    !.dirty_uniforms = {}],
         { Upload(locs[i], mash_light_color_names[i + 1], lt.light_colors[i])
             : i \in lt.dirty_uniforms })

\* mash_light_set_direction_uniform (light, program, uniform_location,
\* direction_in) transforms the direction by the light's matrix and uploads
\* it to uniform_location of the handle it is given as program.  The result
\* is what the program under update, target, receives: nothing when the
\* handle given is not that program.
mash_light_set_direction_uniform(lt, target, program, uniform_location, what) ==
  LET m == mash_light_get_modelview_matrix(lt)
  IN Upd(m.light,
         IF program = target THEN { Upload(uniform_location, what, m.matrix) }
         ELSE {})

mash_directional_light_update_uniforms(lt, program) ==
  LET u == mash_light_real_update_uniforms(lt, program)
      direction == IF lt.dl_uniform_locations_dirty
                   THEN mash_light_get_uniform_location(lt, program, "light_direction")
                   ELSE lt.dl_light_direction_uniform_location
      d == mash_light_set_direction_uniform(u.light, program, program,
                                            direction, "light_direction")
  IN Upd([d.light EXCEPT !.dl_light_direction_uniform_location = direction,
                         !.dl_uniform_locations_dirty = FALSE],
         u.uploads \cup d.uploads)

mash_point_light_update_uniforms(lt, program) ==
  LET u == mash_light_real_update_uniforms(lt, program)
      dirty == lt.pl_uniform_locations_dirty
      attenuation == IF dirty
                     THEN mash_light_get_uniform_location(lt, program, "attenuation")
                     ELSE lt.attenuation_uniform_location
      light_eye_coord == IF dirty
                         THEN mash_light_get_uniform_location(lt, program, "light_eye_coord")
                         ELSE lt.light_eye_coord_uniform_location
      m == mash_light_get_modelview_matrix(u.light)
  IN Upd([m.light EXCEPT !.attenuation_uniform_location = attenuation,
                         !.light_eye_coord_uniform_location = light_eye_coord,
                         !.pl_uniform_locations_dirty = FALSE,
                         !.attenuation_dirty = FALSE],
         u.uploads
           \cup (IF lt.attenuation_dirty
                 THEN { Upload(attenuation, "attenuation", lt.attenuation) }
                 ELSE {})
           \cup { Upload(light_eye_coord, "light_eye_coord", m.matrix) })

\* The spot light calls mash_light_set_direction_uniform (light,
\* priv->light_direction_uniform_location, light_direction): the location
\* stands where the program is expected and the address of the direction
\* where the location is, whatever that address is.
mash_spot_light_update_uniforms(lt, program) ==
  LET u == mash_point_light_update_uniforms(lt, program)
      dirty == lt.sl_uniform_locations_dirty
      spot_cos_cutoff == IF dirty
                         THEN mash_light_get_uniform_location(lt, program, "spot_cos_cutoff")
                         ELSE lt.spot_cos_cutoff_uniform_location
      spot_exponent == IF dirty
                       THEN mash_light_get_uniform_location(lt, program, "spot_exponent")
                       ELSE lt.spot_exponent_uniform_location
      direction == IF dirty
                   THEN mash_light_get_uniform_location(lt, program, "spot_direction")
                   ELSE lt.sl_light_direction_uniform_location
      d == mash_light_set_direction_uniform(u.light, program, direction, 0,
                                            "spot_direction")
  IN Upd([d.light EXCEPT !.spot_cos_cutoff_uniform_location = spot_cos_cutoff,
                         !.spot_exponent_uniform_location = spot_exponent,
                         !.sl_light_direction_uniform_location = direction,
                         !.sl_uniform_locations_dirty = FALSE,
                         !.spot_params_dirty = FALSE],
         u.uploads
           \cup (IF lt.spot_params_dirty
                 THEN { Upload(spot_cos_cutoff, "spot_cos_cutoff",
                               cosf(lt.spot_cutoff)),
                        Upload(spot_exponent, "spot_exponent", 0) }
                 ELSE {})
           \cup d.uploads)

\* The virtual call.
mash_light_update_uniforms(lt, program) ==
  CASE lt.kind = "directional" -> mash_directional_light_update_uniforms(lt, program)
    [] lt.kind = "point" -> mash_point_light_update_uniforms(lt, program)
    [] lt.kind = "spot" -> mash_spot_light_update_uniforms(lt, program)

\* --------------------------------------------------------------- light set

mash_light_set_material_properties ==
  << "mash_material.emission", "mash_material.ambient", "mash_material.diffuse",
     "mash_material.specular", "mash_material.shininess" >>

MaterialProps == 1..Len(mash_light_set_material_properties)

mash_light_set_get_shininess_wrapperAsBug(shininess) == shininess

\* MAX (0.0001, shininess)
mash_light_set_get_shininess_wrapper(shininess) ==
  Max(ShininessEpsilon, shininess)

\* The private data after mash_light_set_init: the allocation is zeroed and
\* init sets only repaint_func_id, layer_indices and pipeline_created.
mash_light_set_init ==
  [ pipeline |-> COGL_INVALID_HANDLE,
    layer_indices |-> <<>>,
    lights |-> <<>>,
    normal_matrix_uniform |-> 0,
    material_uniforms |-> [i \in MaterialProps |-> 0],
    uniforms_dirty |-> FALSE,
    pipeline_created |-> FALSE,
    repaint_func_id |-> 1,   \* the id clutter_threads_add_repaint_func gave
    finalized |-> FALSE ]    \* the object was finalized and freed

mash_light_set_dirty_program(priv) ==
  [priv EXCEPT !.pipeline_created = FALSE]

\* The state update_layer_indices_cb works on.
LayerData(arr, is_matching, index_num) ==
  [layer_indices |-> arr, is_matching |-> is_matching, index_num |-> index_num]

update_layer_indices_cbAsBug(d, layer_index) ==
  LET mismatch == d.is_matching /\ d.index_num >= Len(d.layer_indices)
      matching == d.is_matching /\ ~mismatch
      arr1 == IF mismatch THEN SubSeq(d.layer_indices, 1, d.index_num)
              ELSE d.layer_indices
      arr2 == IF ~matching THEN Append(arr1, layer_index) ELSE arr1
  IN LayerData(arr2, matching, d.index_num + 1)

update_layer_indices_cb(d, layer_index) ==
  LET mismatch == d.is_matching
                  /\ (d.index_num >= Len(d.layer_indices)
                      \/ d.layer_indices[d.index_num + 1] # layer_index)
      matching == d.is_matching /\ ~mismatch
      arr1 == IF mismatch THEN SubSeq(d.layer_indices, 1, d.index_num)
              ELSE d.layer_indices
      arr2 == IF ~matching THEN Append(arr1, layer_index) ELSE arr1
  IN LayerData(arr2, matching, d.index_num + 1)

RECURSIVE cogl_pipeline_foreach_layer(_, _)
\* Calls the callback on each layer index of the pipeline, in order.
cogl_pipeline_foreach_layer(layers, d) ==
  IF layers = <<>> THEN d
  ELSE cogl_pipeline_foreach_layer(Tail(layers),
                                   update_layer_indices_cb(d, Head(layers)))

mash_light_set_update_layer_indicesAsBug(priv, layers) ==
  LET d == cogl_pipeline_foreach_layer(SetToSortedSeq(layers),
                                       LayerData(priv.layer_indices, TRUE, 0))
  IN IF ~d.is_matching \/ d.index_num # Len(d.layer_indices)
     THEN [changed |-> TRUE, priv |-> mash_light_set_dirty_program(priv)]
     ELSE [changed |-> FALSE, priv |-> priv]

mash_light_set_update_layer_indicesUnsized(priv, layers) ==
  LET d == cogl_pipeline_foreach_layer(SetToSortedSeq(layers),
                                       LayerData(priv.layer_indices, TRUE, 0))
  IN IF ~d.is_matching \/ d.index_num # Len(d.layer_indices)
     THEN [changed |-> TRUE,
           priv |-> mash_light_set_dirty_program(
                      [priv EXCEPT !.layer_indices = d.layer_indices])]
     ELSE [changed |-> FALSE,
           priv |-> [priv EXCEPT !.layer_indices = d.layer_indices]]

\* [changed, priv]: the return value and the private data after the call.
mash_light_set_update_layer_indices(priv, layers) ==
  LET d == cogl_pipeline_foreach_layer(SetToSortedSeq(layers),
                                       LayerData(priv.layer_indices, TRUE, 0))
  IN IF ~d.is_matching \/ d.index_num # Len(d.layer_indices)
     THEN [changed |-> TRUE,
           priv |-> mash_light_set_dirty_program(
                      [priv EXCEPT !.layer_indices =
                                      SubSeq(d.layer_indices, 1, d.index_num)])]
     ELSE [changed |-> FALSE,
           priv |-> [priv EXCEPT !.layer_indices = d.layer_indices]]

add_layer_indices(priv, string) ==
  string \o [i \in 1..Len(priv.layer_indices) |->
               Tok("cogl_tex_coord%i_out = cogl_tex_coord%i_in",
                   <<priv.layer_indices[i]>>)]

\* The state of the loop over priv->lights in mash_light_set_get_pipeline.
\* The state of the loop over priv->lights in mash_light_set_get_pipeline;
\* order is the lights mash_light_generate_shader was called on so far.
GenAll(lf, us, ms) ==
  [light |-> lf, uniform_source |-> us, main_source |-> ms, order |-> <<>>]

RECURSIVE GenerateLights(_, _)
GenerateLights(l, acc) ==
  IF l = <<>> THEN acc
  ELSE LET g == mash_light_generate_shader(acc.light[Head(l)],
                                           acc.uniform_source, acc.main_source)
       IN GenerateLights(Tail(l),
            [GenAll([acc.light EXCEPT ![Head(l)] = g.light],
                    g.uniform_source, g.main_source)
               EXCEPT !.order = Append(acc.order, Head(l))])

\* [priv, light, snippet]: the light set, the lights and the snippet that is
\* added to the pipeline.  The snippet's lights field records the list the
\* sources were generated from.
mash_light_set_get_pipeline(priv, lf) ==
  LET uniform_source == << Tok("uniform mat3 mash_normal_matrix", <<>>),
                           Tok("struct MashMaterialParameters", <<>>),
                           Tok("uniform MashMaterialParameters mash_material", <<>>) >>
      main_source == << Tok("cogl_color_out = mash_material.emission", <<>>),
                        Tok("vec3 normal = normalize (mash_normal_matrix * cogl_normal_in)", <<>>),
                        Tok("vec3 eye_coord = homogenous_eye_coord.xyz / homogenous_eye_coord.w", <<>>) >>
      g == GenerateLights(priv.lights, GenAll(lf, uniform_source, main_source))
      main1 == Append(g.main_source,
                 Tok("cogl_position_out = cogl_modelview_projection_matrix * cogl_position_in", <<>>))
  IN [ priv |-> [priv EXCEPT !.normal_matrix_uniform = NormalMatrixLocation,
                             !.material_uniforms =
                                [i \in MaterialProps |-> MaterialLocation(i)]],
       light |-> g.light,
       gen |-> g.order,
       snippet |-> [ declarations |-> g.uniform_source,
                     post |-> add_layer_indices(priv, main1),
                     lights |-> priv.lights ] ]

\* The state of the loop over priv->lights in mash_light_set_begin_paint.
UpdAll(lf, ups) == [light |-> lf, uploads |-> ups, order |-> <<>>]

RECURSIVE UpdateLights(_, _, _)
\* Each light is handed the pipeline as its program argument.
UpdateLights(l, pipeline, acc) ==
  IF l = <<>> THEN acc
  ELSE LET u == mash_light_update_uniforms(acc.light[Head(l)], pipeline)
       IN UpdateLights(Tail(l), pipeline,
            [UpdAll([acc.light EXCEPT ![Head(l)] = u.light],
                    acc.uploads \cup u.uploads)
               EXCEPT !.order = Append(acc.order, Head(l))])

\* The lights begin_paint calls mash_light_update_uniforms on, in call order.
UpdatedLights(priv) == IF priv.uniforms_dirty THEN priv.lights ELSE <<>>

MaterialUploadsAsBug(priv, shininess) ==
  IF priv.uniforms_dirty
  THEN { Upload(priv.material_uniforms[i], mash_light_set_material_properties[i],
                IF i = 5 THEN mash_light_set_get_shininess_wrapper(shininess) ELSE 0)
           : i \in MaterialProps }
       \cup { Upload(priv.normal_matrix_uniform, "mash_normal_matrix", 0) }
  ELSE {}

\* The normal matrix and the material properties begin_paint uploads.
MaterialUploads(priv, shininess) ==
  (IF priv.normal_matrix_uniform # -1
   THEN { Upload(priv.normal_matrix_uniform, "mash_normal_matrix", 0) }
   ELSE {})
  \cup
  { Upload(priv.material_uniforms[i], mash_light_set_material_properties[i],
           IF i = 5 THEN mash_light_set_get_shininess_wrapper(shininess) ELSE 0)
      : i \in { j \in MaterialProps : priv.material_uniforms[j] # -1 } }

\* [priv, light, upd, uploads] for a pipeline that cogl_is_pipeline accepts.
mash_light_set_begin_paint(priv, lf, pipeline, shininess) ==
  LET upd == UpdatedLights(priv)
      u == UpdateLights(upd, pipeline, UpdAll(lf, {}))
  IN [ priv |-> [priv EXCEPT !.pipeline = pipeline],
       light |-> u.light,
       upd |-> u.order,
       uploads |-> u.uploads \cup MaterialUploads(priv, shininess) ]

\* --------------------------------------------------------------- mesh data

\* The greatest layer index of a pipeline whose layers come and go.
MaxLayer == 2

\* The greatest number of facet records in a file.
MaxFacets == 2

\* Coordinates are gfloats; G_MAXFLOAT stands for the greatest of them.
G_MAXFLOAT == 100

\* A gfloat quotient is kept as its operands [num, den]; a < b for two
\* quotients with positive denominators.
QuotientLess(a, b) == a.num * b.den < b.num * a.den
\* Stands for the greatest guint.
G_MAXUINT == 2147483647

\* The facet records of the files: x0 y0 z0 x1 y1 z1 x2 y2 z2, three vertices.
FacetValues ==
  LET a == <<0, 2, -G_MAXFLOAT>>
      b == <<-1, G_MAXFLOAT, 0>>
      c == <<1, 0, 3>>
  IN { <<a, b, a>>, <<b, b, c>>, <<c, a, b>> }

\* The light box starts without a program; the lights are the children of
\* the container that are MashLights, and the status of the program is what
\* the GL compiler and linker made of the generated shader.
\* A child of the light box that is no light (the example adds its model).
OtherActor == 0

\* lights are the children that are lights, in the container's order;
\* others are the other children.
mash_light_box_init ==
  [ lights |-> <<>>, others |-> {}, program |-> COGL_INVALID_HANDLE,
    compiled |-> FALSE, linked |-> FALSE ]

mash_light_box_check_light_changedAsBug(priv, actor) ==
  IF priv.program # COGL_INVALID_HANDLE
  THEN [priv EXCEPT !.program = COGL_INVALID_HANDLE] ELSE priv

\* "If we've added or removed a light then we need to regenerate the shader"
mash_light_box_check_light_changed(priv, actor) ==
  IF actor \in Lights /\ priv.program # COGL_INVALID_HANDLE
  THEN [priv EXCEPT !.program = COGL_INVALID_HANDLE] ELSE priv

NoError == "none"

\* A buffer handle: NULL, or a buffer of so many elements.
NullBuffer == [valid |-> FALSE, size |-> 0]
cogl_vertex_buffer_new(n) == [valid |-> TRUE, size |-> n]

\* What a loader holds after construction and MashData before its first load
\* (both are zero-filled private structures).
NoLoadedData ==
  [ vertices_vbo |-> NullBuffer, indices |-> NullBuffer,
    min_index |-> 0, max_index |-> 0, n_triangles |-> 0,
    min_vertex |-> <<0, 0, 0>>, max_vertex |-> <<0, 0, 0>>,
    prim |-> <<>> ]

mash_data_init == [ loaded_data |-> NoLoadedData ]

\* The files given to mash_data_load.  fault says where reading the file
\* goes wrong: stl_open, stl_read_header, a vertex property that is not in
\* the file, no facet element, or stl_read after the facets were delivered.
Files ==
  LET FacetSeqs == UNION { [1..n -> FacetValues] : n \in 0..MaxFacets }
      Faults == {"open", "header", "props", "element", "read"}
  IN { [suffix |-> "obj", fault |-> "none", facets |-> <<>>] }
       \cup { [suffix |-> x, fault |-> "none", facets |-> f] :
                x \in {"stl", "ply"}, f \in FacetSeqs }
       \cup { [suffix |-> "stl", fault |-> x, facets |-> f] :
                x \in Faults, f \in { g \in FacetSeqs : Len(g) <= 1 } }
       \cup { [suffix |-> "ply", fault |-> "read", facets |-> <<>>] }

\* The loop of mash_stl_loader_vertex_read_cb over the vertices i of the
\* record just completed and, inside it, over the components j: component j
\* of the box is compared with vertex 0, then 1, then 2.
UpdateBoundingBoxAsBug(d, facet) ==
  LET lower(m, value) == IF value < m THEN value ELSE m
      higher(m, value) == IF value > m THEN value ELSE m
  IN [d EXCEPT
        !.min_vertex = [j \in 1..3 |-> lower(d.min_vertex[j], facet[1][j])],
        !.max_vertex = [j \in 1..3 |-> higher(d.max_vertex[j], facet[1][j])]]

UpdateBoundingBox(d, facet) ==
  LET lower(m, value) == IF value < m THEN value ELSE m
      higher(m, value) == IF value > m THEN value ELSE m
  IN [d EXCEPT
        !.min_vertex = [j \in 1..3 |->
           lower(lower(lower(d.min_vertex[j], facet[1][j]), facet[2][j]),
                 facet[3][j])],
        !.max_vertex = [j \in 1..3 |->
           higher(higher(higher(d.max_vertex[j], facet[1][j]), facet[2][j]),
                  facet[3][j])]]

\* The callback once the ninth property of a record has arrived: the record
\* is appended to data->vertices and the bounding box updated.
mash_stl_loader_vertex_read_cb(d, facet) ==
  UpdateBoundingBox([d EXCEPT !.vertices = Append(@, facet)], facet)

\* stl_read: the callback is registered for the properties of the facet
\* element only, so it is all that runs; no callback feeds data->faces.
RECURSIVE stl_read(_, _)
stl_read(d, facets) ==
  IF facets = <<>> THEN d
  ELSE stl_read(mash_stl_loader_vertex_read_cb(d, Head(facets)), Tail(facets))

\* g_set_error on data->error: the first error stays.
SetError(d, code) == IF d.error = NoError THEN [d EXCEPT !.error = code] ELSE d

\* "Make sure all of the indices are valid"
IndexOutOfRangeAsBug(d) == d.max_index > Len(d.vertices)

IndexOutOfRange(d) == d.max_index >= Len(d.vertices)

\* The three vertices of each record, in order, as the primitive holds them.
RECURSIVE PrimitiveVertices(_)
PrimitiveVertices(vertices) ==
  IF vertices = <<>> THEN <<>>
  ELSE LET f == Head(vertices)
       IN <<f[1], f[2], f[3]>> \o PrimitiveVertices(Tail(vertices))

\* mash_stl_loader_load on a new loader priv: the result, the error, the
\* loader's private data afterwards, and the largest index and the number
\* of vertex records read.
mash_stl_loader_load(priv, file) ==
  LET data0 == [ error |-> NoError, vertices |-> <<>>, faces |-> <<>>,
                 min_vertex |-> <<G_MAXFLOAT, G_MAXFLOAT, G_MAXFLOAT>>,
                 max_vertex |-> <<-G_MAXFLOAT, -G_MAXFLOAT, -G_MAXFLOAT>>,
                 min_index |-> G_MAXUINT, max_index |-> 0 ]
      data ==
        IF file.fault = "open" \/ file.fault = "header"
        THEN SetError(data0, "UNKNOWN")
        ELSE LET d1 == IF file.fault = "props"
                       THEN SetError(data0, "MISSING_PROPERTY") ELSE data0
             IN IF file.fault = "element"
                THEN SetError(d1, "MISSING_PROPERTY")
                ELSE LET d2 == stl_read(d1, file.facets)
                     IN IF file.fault = "read"
                        THEN SetError(d2, "UNKNOWN") ELSE d2
  IN IF data.error # NoError
     THEN [ret |-> FALSE, error |-> data.error, priv |-> priv,
           max_index |-> data.max_index, n_vertices |-> Len(data.vertices)]
     ELSE IF IndexOutOfRange(data)
     THEN [ret |-> FALSE, error |-> "INVALID", priv |-> priv,
           max_index |-> data.max_index, n_vertices |-> Len(data.vertices)]
     ELSE [ret |-> TRUE, error |-> NoError,
           max_index |-> data.max_index, n_vertices |-> Len(data.vertices),
           priv |-> [ vertices_vbo |-> cogl_vertex_buffer_new(Len(data.vertices)),
                      indices |-> cogl_vertex_buffer_new(Len(data.faces)),
                      min_index |-> data.min_index,
                      max_index |-> data.max_index,
                      n_triangles |-> Len(data.faces) \div 3,
                      min_vertex |-> data.min_vertex,
                      max_vertex |-> data.max_vertex,
                      prim |-> PrimitiveVertices(data.vertices) ]]

\* The PLY loader: a parse error, or the vertices of the file with indices
\* 0 .. n-1 and their bounding box.
mash_ply_loader_load(priv, file) ==
  LET vs == PrimitiveVertices(file.facets)
      c(j) == { vs[i][j] : i \in 1..Len(vs) }
      lo(j) == CHOOSE x \in c(j) : \A y \in c(j) : x <= y
      hi(j) == CHOOSE x \in c(j) : \A y \in c(j) : x >= y
  IN IF file.fault # "none" \/ vs = <<>>
     THEN [ret |-> FALSE, error |-> "UNKNOWN", priv |-> priv,
           max_index |-> 0, n_vertices |-> 0]
     ELSE [ret |-> TRUE, error |-> NoError,
           max_index |-> Len(vs) - 1, n_vertices |-> Len(vs),
           priv |-> [ vertices_vbo |-> cogl_vertex_buffer_new(Len(vs)),
                      indices |-> cogl_vertex_buffer_new(Len(vs)),
                      min_index |-> 0, max_index |-> Len(vs) - 1,
                      n_triangles |-> Len(vs) \div 3,
                      min_vertex |-> <<lo(1), lo(2), lo(3)>>,
                      max_vertex |-> <<hi(1), hi(2), hi(3)>>,
                      prim |-> vs ]]

\* mash_data_loader_load dispatches to the class of the loader.
mash_data_loader_load(loader, file) ==
  IF loader = "ply" THEN mash_ply_loader_load(NoLoadedData, file)
  ELSE mash_stl_loader_load(NoLoadedData, file)

\* What priv->loaded_data is after the loader returned r: on success the old
\* buffers are released and the loader's data copied in.
InstallAsBug(loaded_data, r) ==
  [ loaded_data |-> r.priv,
    freed |-> loaded_data.vertices_vbo.valid \/ loaded_data.indices.valid ]

Install(loaded_data, r) ==
  IF ~r.ret
  THEN [ loaded_data |-> loaded_data, freed |-> FALSE ]
  ELSE [ loaded_data |-> r.priv,
         freed |-> loaded_data.vertices_vbo.valid \/ loaded_data.indices.valid ]

\* ------------------------------------------------------------------- state

VARIABLES
  ls,      \* the MashLightSetPrivate of the one light set
  light,   \* light id -> the private data of that light
  model,   \* model id -> MashModelPrivate (data, pipeline, light_set, ...)
  pipe,    \* pipeline handle -> its layers, snippets and material shininess
  hist,    \* what has happened since earlier calls (history)
  last,    \* the calls the last handler made (observation)
  mesh,    \* the MashDataPrivate of the one MashData object
  box      \* the MashLightBoxPrivate of the one light box and its lights

vars == <<ls, light, model, pipe, hist, last, mesh, box>>

cogl_is_pipeline(h) == h \in Pipelines

\* The history is kept for the claims of one group at a time: "cache" (which
\* program a paint uses) or "uniforms" (what begin_paint uploads).
Hist0(track) ==
  [ track |-> track,
    quiet_painter |-> 0,     \* model of the last lit paint, 0 once the lights
                             \* or any pipeline's layers changed after it
    inval |-> "none",        \* "pending": a light was added or removed and no
                             \* program was built since; "rebuilt": one was
    bp_quiet |-> FALSE,      \* begin_paint ran and since then no light colour
                             \* changed and no shader was generated
    bp_since_tick |-> FALSE, \* begin_paint found uniforms_dirty set and no
                             \* repaint tick came since
    fresh |-> {},            \* the pipelines a begin_paint uploaded an ambient
                             \* colour for since a light's ambient colour
                             \* was last changed
    held |-> [p \in Pipelines |-> 0]
                             \* the references the light set took on the
                             \* pipeline less those it released
  ]

HistLightsChanged(h) ==
  IF h.track = "cache"
  THEN [h EXCEPT !.quiet_painter = 0, !.inval = "pending"] ELSE h

HistLayersChanged(h) ==
  IF h.track = "cache" THEN [h EXCEPT !.quiet_painter = 0] ELSE h

HistTick(h) ==
  IF h.track = "uniforms" THEN [h EXCEPT !.bp_since_tick = FALSE] ELSE h

HistColourChanged(h) ==
  IF h.track = "uniforms" THEN [h EXCEPT !.bp_quiet = FALSE]
  ELSE IF h.track = "colour" THEN [h EXCEPT !.fresh = {}]
  ELSE h

\* After a begin_paint that ran past its pipeline check; generated says
\* whether a shader was generated just before it.
HistBegin(h, found_dirty, pipeline, uploads) ==
  IF h.track = "uniforms"
  THEN [h EXCEPT !.bp_quiet = TRUE, !.bp_since_tick = @ \/ found_dirty]
  ELSE IF h.track = "colour"
            /\ \E u \in uploads : u.what = "ambient_light"
  THEN [h EXCEPT !.fresh = @ \cup {pipeline}]
  ELSE h

\* After the light-set branch of a paint of model m.
HistPaint(h, m, rebuild) ==
  IF h.track = "cache"
  THEN [h EXCEPT !.quiet_painter = m,
                 !.inval = IF rebuild /\ @ = "pending" THEN "rebuilt" ELSE @]
  ELSE h

\* The observation of a handler that made none of the paint-time calls.  pre
\* is the history before the handler; only the paint handlers record it.
Obs(op, who) ==
  [ op |-> op, who |-> who, pre |-> Hist0(hist.track),
    lit |-> FALSE,        \* the paint took the light-set branch
    changed |-> FALSE,    \* update_layer_indices returned TRUE
    rebuilt |-> FALSE,    \* mash_light_set_get_pipeline was called
    gen |-> <<>>,         \* lights generate_shader was called on, in order
    began |-> FALSE,      \* begin_paint ran past its pipeline check
    found_dirty |-> FALSE,\* begin_paint found uniforms_dirty set
    upd |-> <<>>,         \* lights update_uniforms was called on, in order
    uploads |-> {},       \* the uniforms begin_paint and the lights uploaded
    drew |-> FALSE,       \* mash_data_render was called
    pipeline |-> COGL_INVALID_HANDLE,
    suffix |-> "",        \* the suffix of the file given to mash_data_load
    fault |-> "none",     \* and where reading that file goes wrong
    ret |-> FALSE,        \* what mash_data_load returned
    error |-> NoError,    \* the GError code it set
    freed |-> FALSE,      \* it released the buffers loaded before
    max_index |-> 0,      \* the largest index and the number of vertex
    n_vertices |-> 0,     \* records the loader had when it validated them
    warnings |-> {},      \* the g_warning messages of the handler
    calls |-> <<>> ]      \* the calls of the paint handler, in order

\* mash_model_init: a new pipeline of its own, fit_to_allocation, the rest
\* zeroed.  The scene then gives the model its data and the light set.
mash_model_init(m) ==
  [ data |-> TRUE, pipeline |-> m, light_set |-> TRUE,
    fb |-> 0,                \* priv->fb, NULL until the first paint
    pipeline_created |-> FALSE,
    fit_to_allocation |-> TRUE,
    allocation |-> <<0, 0>>, \* width and height of the actor's allocation
    scale |-> [num |-> 0, den |-> 1],
    translate |-> [j \in 1..3 |-> [num |-> 0, den |-> 1]] ]

\* cogl_get_draw_framebuffer (): the one framebuffer the stage draws to.
DrawFramebuffer == 1

NoSnippet == [ declarations |-> <<>>, post |-> <<>>, lights |-> <<>> ]

\* A pipeline as Cogl keeps it, as far as the light set uses it: the set of
\* its layer indices, the number of vertex snippets added to it (counted up
\* to MaxSnippets) with the one added last, whether that one was added to a
\* pipeline that had a snippet already, and its material shininess.
cogl_pipeline_new ==
  [ layers |-> {}, n_snippets |-> 0, snippet |-> NoSnippet, stacked |-> FALSE,
    shininess |-> 0 ]

\* The snippet is appended to the snippets of the pipeline; none is removed.
cogl_pipeline_add_snippet(pl, snippet) ==
  [pl EXCEPT !.snippet = snippet,
             !.stacked = pl.n_snippets > 0,
             !.n_snippets = IF @ < MaxSnippets THEN @ + 1 ELSE @]

\* Lights 1, 2, 3, ... are directional, point, spot, directional, ...
KindOf(l) == <<"directional", "point", "spot">>[((l - 1) % 3) + 1]

\* The scene after construction: kinds and gids give each light its class
\* and actor id, shininess is the material shininess of the pipelines.
InitScene(track, kinds, gids, shininess) ==
  /\ ls = mash_light_set_init
  /\ model = [m \in Models |-> mash_model_init(m)]
  /\ hist = Hist0(track)
  /\ last = [op |-> "init", who |-> 0, pre |-> Hist0(track),
             lit |-> FALSE, changed |-> FALSE, rebuilt |-> FALSE,
             gen |-> <<>>, began |-> FALSE, found_dirty |-> FALSE,
             upd |-> <<>>, uploads |-> {}, drew |-> FALSE,
             pipeline |-> COGL_INVALID_HANDLE,
             suffix |-> "", fault |-> "none",
             ret |-> FALSE, error |-> NoError, freed |-> FALSE,
             max_index |-> 0, n_vertices |-> 0, warnings |-> {},
             calls |-> <<>>]
  /\ mesh = mash_data_init
  /\ box = mash_light_box_init
  /\ light = [l \in Lights |-> mash_light_init(kinds[l], gids[l])]
  /\ pipe = [p \in Pipelines |->
               [cogl_pipeline_new EXCEPT !.shininess = shininess]]

DefaultKinds == [l \in Lights |-> KindOf(l)]
DefaultGids == [l \in Lights |-> l]

Init == InitScene("cache", DefaultKinds, DefaultGids, 0)

InitUniforms == InitScene("uniforms", DefaultKinds, DefaultGids, 0)

\* The lights are actors with any distinct ids.
InitSymbol ==
  \E gids \in [Lights -> GidValues] :
    /\ \A a, b \in Lights : a # b => gids[a] # gids[b]
    /\ InitScene("none", DefaultKinds, gids, 0)

\* The lights are of any class and the material has any shininess.
InitMaterial ==
  \E kinds \in [Lights -> Kinds], shininess \in ShininessValues :
    InitScene("none", kinds, DefaultGids, shininess)

\* ----------------------------------------------------------------- actions

mash_light_set_add_lightAsBug(l) ==
  /\ Len(ls.lights) < MaxLights
  /\ ls' = mash_light_set_dirty_program([ls EXCEPT !.lights = Append(@, l)])
  /\ light' = [light EXCEPT ![l].ref_count = @ + 1]
  /\ hist' = HistLightsChanged(hist)
  /\ last' = Obs("add_light", 0)
  /\ UNCHANGED <<model, pipe, mesh, box>>

\* g_slist_prepend: the light added last is the head of priv->lights;
\* g_object_ref_sink takes the reference the list entry holds.
mash_light_set_add_light(l) ==
  /\ Len(ls.lights) < MaxLights
  /\ ls' = mash_light_set_dirty_program([ls EXCEPT !.lights = <<l>> \o @])
  /\ light' = [light EXCEPT ![l].ref_count = @ + 1]
  /\ hist' = HistLightsChanged(hist)
  /\ last' = Obs("add_light", 0)
  /\ UNCHANGED <<model, pipe, mesh, box>>

mash_light_set_remove_lightAsBug(l) ==
  LET found == l \in Range(ls.lights)
  IN /\ ls' = IF found
              THEN mash_light_set_dirty_program(
                     [ls EXCEPT !.lights = SelectSeq(@, LAMBDA x : x # l)])
              ELSE ls
     /\ light' = IF found THEN [light EXCEPT ![l].ref_count = @ - 1] ELSE light
     /\ hist' = IF found THEN HistLightsChanged(hist) ELSE hist
     /\ last' = Obs("remove_light", l)
     /\ UNCHANGED <<model, pipe, mesh, box>>

\* The loop stops at the first entry that is the light.
mash_light_set_remove_light(l) ==
  LET found == l \in Range(ls.lights)
  IN /\ ls' = IF found
              THEN mash_light_set_dirty_program(
                     [ls EXCEPT !.lights = Remove1(@, l)])
              ELSE ls
     /\ light' = IF found THEN [light EXCEPT ![l].ref_count = @ - 1] ELSE light
     /\ hist' = IF found THEN HistLightsChanged(hist) ELSE hist
     /\ last' = Obs("remove_light", l)
     /\ UNCHANGED <<model, pipe, mesh, box>>

mash_light_set_disposeAsBug ==
  /\ ls' = [ls EXCEPT !.repaint_func_id = 0]
  /\ light' = [l \in Lights |->
                 [light[l] EXCEPT !.ref_count =
                    @ - Cardinality({ i \in 1..Len(ls.lights) : ls.lights[i] = l })]]
  /\ last' = [Obs("dispose", 0) EXCEPT
                !.calls = [i \in 1..Len(ls.lights) |-> "g_object_unref"]]
  /\ UNCHANGED <<model, pipe, hist, mesh, box>>

\* Every entry of the list is unreffed, the list is freed and set to NULL,
\* and the repaint function is removed if it is registered.
mash_light_set_dispose ==
  /\ ls' = [ls EXCEPT !.lights = <<>>, !.repaint_func_id = 0]
  /\ light' = [l \in Lights |->
                 [light[l] EXCEPT !.ref_count =
                    @ - Cardinality({ i \in 1..Len(ls.lights) : ls.lights[i] = l })]]
  /\ last' = [Obs("dispose", 0) EXCEPT
                !.calls = [i \in 1..Len(ls.lights) |-> "g_object_unref"]
                            \o (IF ls.repaint_func_id # 0
                                THEN <<"clutter_threads_remove_repaint_func">>
                                ELSE <<>>)]
  /\ UNCHANGED <<model, pipe, hist, mesh, box>>

\* GObject finalizes after dispose.  priv->pipeline is unreffed if it is
\* set and the array of layer indices is freed.
mash_light_set_finalize ==
  /\ ls.repaint_func_id = 0
  /\ ls' = [ls EXCEPT !.layer_indices = <<>>, !.finalized = TRUE]
  /\ hist' = IF ls.pipeline # COGL_INVALID_HANDLE
             THEN [hist EXCEPT !.held[ls.pipeline] = @ - 1] ELSE hist
  /\ last' = [Obs("finalize", 0) EXCEPT
                !.calls = IF ls.pipeline # COGL_INVALID_HANDLE
                          THEN <<"cogl_handle_unref">> ELSE <<>>]
  /\ UNCHANGED <<light, model, pipe, mesh, box>>

mash_light_set_repaint_func ==
  /\ ls' = [ls EXCEPT !.uniforms_dirty = TRUE]
  /\ hist' = HistTick(hist)
  /\ last' = Obs("repaint_func", 0)
  /\ UNCHANGED <<light, model, pipe, mesh, box>>

\* The application adds a texture layer to a pipeline.
cogl_pipeline_set_layer_texture(p, i) ==
  /\ i \notin pipe[p].layers
  /\ pipe' = [pipe EXCEPT ![p].layers = @ \cup {i}]
  /\ hist' = HistLayersChanged(hist)
  /\ last' = Obs("set_layer", 0)
  /\ UNCHANGED <<ls, light, model, mesh, box>>

\* The application removes a texture layer from a pipeline.
cogl_pipeline_remove_layer(p, i) ==
  /\ i \in pipe[p].layers
  /\ pipe' = [pipe EXCEPT ![p].layers = @ \ {i}]
  /\ hist' = HistLayersChanged(hist)
  /\ last' = Obs("remove_layer", 0)
  /\ UNCHANGED <<ls, light, model, mesh, box>>

mash_light_set_ambient(l, ambient) ==
  LET differs == ambient # light[l].light_colors[MASH_LIGHT_COLOR_AMBIENT]
  IN /\ light' = IF differs
                 THEN [light EXCEPT
                         ![l].light_colors[MASH_LIGHT_COLOR_AMBIENT] = ambient,
                         ![l].dirty_uniforms = @ \cup {MASH_LIGHT_COLOR_AMBIENT}]
                 ELSE light
     /\ hist' = IF differs THEN HistColourChanged(hist) ELSE hist
     /\ last' = Obs("set_ambient", 0)
     /\ UNCHANGED <<ls, model, pipe, mesh, box>>

\* The parent's add, then the check.
mash_light_box_add(actor) ==
  /\ actor \in Lights => Len(box.lights) < MaxLights
  /\ box' = mash_light_box_check_light_changed(
              IF actor \in Lights
              THEN [box EXCEPT !.lights = Append(@, actor)]
              ELSE [box EXCEPT !.others = @ \cup {actor}],
              actor)
  /\ last' = Obs("box_add", actor)
  /\ UNCHANGED <<ls, light, model, pipe, hist, mesh>>

\* The parent's remove, then the check.
mash_light_box_remove(actor) ==
  /\ box' = mash_light_box_check_light_changed(
              IF actor \in Lights
              THEN [box EXCEPT !.lights = Remove1(@, actor)]
              ELSE [box EXCEPT !.others = @ \ {actor}],
              actor)
  /\ last' = Obs("box_remove", actor)
  /\ UNCHANGED <<ls, light, model, pipe, hist, mesh>>

\* mash_light_box_get_program and what it warned about; compiles, info_log
\* and links are what GL makes of the generated shader. The status of the
\* link is never asked for.
mash_light_box_get_program(priv, lf, compiles, info_log, links) ==
  IF priv.program = COGL_INVALID_HANDLE
  THEN [ priv |-> [priv EXCEPT !.program = BoxProgram,
                               !.compiled = compiles,
                               !.linked = compiles /\ links],
         light |-> GenerateLights(priv.lights, GenAll(lf, <<>>, <<>>)).light,
         built |-> TRUE,
         warnings |->
           (IF ~compiles THEN {"Error compiling light box shader"} ELSE {})
             \cup (IF info_log THEN {"The light box shader has an info log"}
                               ELSE {}) ]
  ELSE [ priv |-> priv, light |-> lf, built |-> FALSE, warnings |-> {} ]

\* The program is used, the lights update their uniforms and the children
\* are painted, whatever the status of the program.
mash_light_box_paint(compiles, info_log, links) ==
  LET g == mash_light_box_get_program(box, light, compiles, info_log, links)
      u == UpdateLights(box.lights, g.priv.program, UpdAll(g.light, {}))
  IN /\ box' = g.priv
     /\ light' = u.light
     /\ last' = [Obs("box_paint", 0) EXCEPT
                   !.pipeline = g.priv.program, !.rebuilt = g.built,
                   !.gen = IF g.built THEN box.lights ELSE <<>>,
                   !.upd = u.order, !.uploads = u.uploads,
                   !.warnings = g.warnings, !.drew = TRUE]
     /\ UNCHANGED <<ls, model, pipe, hist, mesh>>

\* The colours clutter_color_equal may read at &priv->light_colors + n.  The
\* sum is a pointer to the n-th array of MASH_LIGHT_COLOR_COUNT colours: for
\* n = 0 it is the stored ambient colour, for the others it lies past the
\* array and the bytes read there are no colour of the light.
ColorsAt(lt, n) == IF n = 0 THEN { lt.light_colors[0] } ELSE ColourValues

mash_light_set_diffuse(l, diffuse) ==
  \E seen \in ColorsAt(light[l], MASH_LIGHT_COLOR_DIFFUSE) :
    LET differs == diffuse # seen
    IN /\ light' = IF differs
                   THEN [light EXCEPT
                           ![l].light_colors[MASH_LIGHT_COLOR_DIFFUSE] = diffuse,
                           ![l].dirty_uniforms = @ \cup {MASH_LIGHT_COLOR_DIFFUSE}]
                   ELSE light
       /\ hist' = IF differs THEN HistColourChanged(hist) ELSE hist
       /\ last' = Obs("set_diffuse", 0)
       /\ UNCHANGED <<ls, model, pipe, mesh, box>>

mash_light_set_specular(l, specular) ==
  \E seen \in ColorsAt(light[l], MASH_LIGHT_COLOR_SPECULAR) :
    LET differs == specular # seen
    IN /\ light' = IF differs
                   THEN [light EXCEPT
                           ![l].light_colors[MASH_LIGHT_COLOR_SPECULAR] = specular,
                           ![l].dirty_uniforms = @ \cup {MASH_LIGHT_COLOR_SPECULAR}]
                   ELSE light
       /\ hist' = IF differs THEN HistColourChanged(hist) ELSE hist
       /\ last' = Obs("set_specular", 0)
       /\ UNCHANGED <<ls, model, pipe, mesh, box>>

mash_point_light_set_constant_attenuationAsBug(l, attenuation) ==
  /\ light' = [light EXCEPT ![l].attenuation = attenuation,
                            ![l].attenuation_dirty = TRUE]
  /\ last' = Obs("set_constant_attenuation", l)
  /\ UNCHANGED <<ls, model, pipe, hist, mesh, box>>

mash_point_light_set_constant_attenuation(l, attenuation) ==
  /\ light' = IF attenuation # light[l].attenuation
              THEN [light EXCEPT ![l].attenuation = attenuation,
                                 ![l].attenuation_dirty = TRUE]
              ELSE light
  /\ last' = Obs("set_constant_attenuation", l)
  /\ UNCHANGED <<ls, model, pipe, hist, mesh, box>>

mash_spot_light_set_spot_cutoff(l, cutoff) ==
  /\ light' = IF cutoff # light[l].spot_cutoff
              THEN [light EXCEPT ![l].spot_cutoff = cutoff,
                                 ![l].spot_params_dirty = TRUE]
              ELSE light
  /\ last' = Obs("set_spot_cutoff", l)
  /\ UNCHANGED <<ls, model, pipe, hist, mesh, box>>

\* The light actor, or one of its ancestors, is given another transformation:
\* t is the product the light's matrix is computed from afterwards.
clutter_actor_set_transform(l, t) ==
  /\ light' = [light EXCEPT ![l].transform = t]
  /\ last' = Obs("set_transform", l)
  /\ UNCHANGED <<ls, model, pipe, hist, mesh, box>>

\* A NULL light_set disables lighting; the pipeline is left as it is.
mash_model_set_light_set(m, light_set) ==
  /\ model' = [model EXCEPT ![m].light_set = light_set]
  /\ last' = Obs("set_light_set", 0)
  /\ UNCHANGED <<ls, light, pipe, hist, mesh, box>>

\* data is FALSE for NULL.
mash_model_set_data(m, data) ==
  /\ model' = [model EXCEPT ![m].data = data]
  /\ last' = Obs("set_data", 0)
  /\ UNCHANGED <<ls, light, pipe, hist, mesh, box>>

\* g_return_if_fail: the handle is COGL_INVALID_HANDLE or a pipeline.
mash_model_set_pipeline(m, pipeline) ==
  /\ model' = IF pipeline = COGL_INVALID_HANDLE \/ cogl_is_pipeline(pipeline)
              THEN [model EXCEPT ![m].pipeline = pipeline]
              ELSE model
  /\ last' = Obs("set_pipeline", 0)
  /\ UNCHANGED <<ls, light, pipe, hist, mesh, box>>

\* A custom actor calls mash_light_set_begin_paint itself.
custom_begin_paint(p) ==
  IF ~cogl_is_pipeline(p)
  THEN /\ ls' = [ls EXCEPT !.pipeline = p]
       /\ last' = [Obs("begin_paint", 0) EXCEPT !.pipeline = p]
       /\ UNCHANGED <<light, model, pipe, hist, mesh, box>>
  ELSE LET b == mash_light_set_begin_paint(ls, light, p, pipe[p].shininess)
       IN /\ ls' = b.priv
          /\ light' = b.light
          /\ hist' = HistBegin(hist, ls.uniforms_dirty, p, b.uploads)
          /\ last' = [Obs("begin_paint", 0) EXCEPT
                        !.pre = hist, !.pipeline = p, !.began = TRUE,
                        !.found_dirty = ls.uniforms_dirty,
                        !.upd = b.upd, !.uploads = b.uploads]
          /\ UNCHANGED <<model, pipe, mesh, box>>

mash_model_paint_failsAsBug(priv) ==
  priv.pipeline = COGL_INVALID_HANDLE \/ ~cogl_is_pipeline(priv.pipeline)

\* "Silently fail if we haven't got any data or a pipeline"
mash_model_paint_fails(priv) ==
  \/ ~priv.data
  \/ priv.pipeline = COGL_INVALID_HANDLE
  \/ ~cogl_is_pipeline(priv.pipeline)

mash_model_paint_stepsAsBug(changed, pipeline_created) ==
  <<"mash_light_set_update_layer_indices">>
    \o (IF changed \/ ~pipeline_created
        THEN <<"mash_light_set_get_pipeline">> ELSE <<>>)
    \o <<"mash_model_render_data", "mash_light_set_begin_paint">>

\* The calls of the light set branch and the render after it, given what
\* mash_light_set_update_layer_indices returned and priv->pipeline_created.
mash_model_paint_steps(changed, pipeline_created) ==
  <<"mash_light_set_update_layer_indices">>
    \o (IF changed \/ ~pipeline_created
        THEN <<"mash_light_set_get_pipeline">> ELSE <<>>)
    \o <<"mash_light_set_begin_paint", "mash_model_render_data">>

mash_model_paint(m) ==
  LET priv == model[m]
      p == priv.pipeline
  IN IF mash_model_paint_fails(priv)
     THEN /\ last' = [Obs("paint", m) EXCEPT !.pipeline = p]
          /\ model' = [model EXCEPT ![m].fb = DrawFramebuffer]
          /\ UNCHANGED <<ls, light, pipe, hist, mesh, box>>
     ELSE IF ~priv.light_set
     THEN /\ last' = [Obs("paint", m) EXCEPT
                        !.pipeline = p, !.drew = TRUE,
                        !.calls = <<"mash_model_render_data">>]
          /\ model' = [model EXCEPT ![m].fb = DrawFramebuffer]
          /\ UNCHANGED <<ls, light, pipe, hist, mesh, box>>
     ELSE
       \* each call's result is bound once, as the code's locals are
       \E u \in {mash_light_set_update_layer_indices(ls, pipe[p].layers)} :
       \E steps \in {mash_model_paint_steps(u.changed, priv.pipeline_created)} :
       \E rebuild \in {"mash_light_set_get_pipeline" \in Range(steps)} :
       \E g \in {mash_light_set_get_pipeline(u.priv, light)} :
       \E ls1 \in {IF rebuild THEN g.priv ELSE u.priv} :
       \E light1 \in {IF rebuild THEN g.light ELSE light} :
       \E b \in {mash_light_set_begin_paint(ls1, light1, p, pipe[p].shininess)} :
          /\ ls' = b.priv
          /\ light' = b.light
          /\ model' = [model EXCEPT ![m].pipeline_created = TRUE,
                                    ![m].fb = DrawFramebuffer]
          /\ pipe' = IF rebuild
                     THEN [pipe EXCEPT ![p] = cogl_pipeline_add_snippet(@, g.snippet)]
                     ELSE pipe
          /\ hist' = HistPaint(HistBegin(hist, ls.uniforms_dirty, p, b.uploads),
                               m, rebuild)
          /\ last' = [Obs("paint", m) EXCEPT
                        !.pre = hist,
                        !.pipeline = p, !.lit = TRUE, !.changed = u.changed,
                        !.rebuilt = rebuild,
                        !.gen = IF rebuild THEN g.gen ELSE <<>>,
                        !.began = TRUE, !.found_dirty = ls.uniforms_dirty,
                        !.upd = b.upd, !.uploads = b.uploads, !.drew = TRUE,
                        !.calls = steps]
          /\ UNCHANGED <<mesh, box>>

\* The loader is chosen by the suffix of the file name; a file of another
\* format is an error.
mash_data_load(file) ==
  LET loader == IF file.suffix = "ply" THEN "ply"
                ELSE IF file.suffix = "stl" THEN "stl" ELSE "none"
      r == IF loader # "none"
           THEN mash_data_loader_load(loader, file)
           ELSE [ret |-> FALSE, error |-> "UNKNOWN_FORMAT", priv |-> NoLoadedData,
                 max_index |-> 0, n_vertices |-> 0]
      i == Install(mesh.loaded_data, r)
  IN /\ mesh' = [mesh EXCEPT !.loaded_data = i.loaded_data]
     /\ last' = [Obs("load", 0) EXCEPT
                   !.suffix = file.suffix, !.fault = file.fault,
                   !.ret = r.ret, !.error = r.error, !.freed = i.freed,
                   !.max_index = r.max_index, !.n_vertices = r.n_vertices]
     /\ UNCHANGED <<ls, light, model, pipe, hist, box>>

\* mash_data_get_extents: the cached bounding cuboid.
mash_data_get_extents(priv) ==
  [ min_vertex |-> priv.loaded_data.min_vertex,
    max_vertex |-> priv.loaded_data.max_vertex ]

mash_model_calculate_scaleAsBug(target_extents, min, max) ==
  IF min = max THEN [num |-> 0, den |-> 1]
  ELSE [num |-> target_extents, den |-> max - min]

mash_model_calculate_scale(target_extents, min, max) ==
  IF min = max THEN [num |-> G_MAXFLOAT, den |-> 1]
  ELSE [num |-> target_extents, den |-> max - min]

\* The parent stores the allocation box; width and height are x2 - x1 and
\* y2 - y1.  translate_x is width / 2 - (min.x + max.x) / 2 * min_scale.
mash_model_allocate(m, width, height) ==
  LET priv == model[m]
      e == mash_data_get_extents(mesh)
      x == mash_model_calculate_scale(width, e.min_vertex[1], e.max_vertex[1])
      y == mash_model_calculate_scale(height, e.min_vertex[2], e.max_vertex[2])
      smaller == IF QuotientLess(y, x) THEN y ELSE x
      min_scale == IF ~QuotientLess(smaller, [num |-> G_MAXFLOAT, den |-> 1])
                   THEN [num |-> 0, den |-> 1] ELSE smaller
      centre(target, j) ==
        [num |-> target * min_scale.den
                   - (e.min_vertex[j] + e.max_vertex[j]) * min_scale.num,
         den |-> 2 * min_scale.den]
  IN /\ model' = IF priv.fit_to_allocation /\ priv.data
                 THEN [model EXCEPT
                         ![m].allocation = <<width, height>>,
                         ![m].scale = min_scale,
                         ![m].translate = << centre(width, 1), centre(height, 2),
                                             centre(0, 3) >>]
                 ELSE [model EXCEPT ![m].allocation = <<width, height>>]
     /\ last' = Obs("allocate", m)
     /\ UNCHANGED <<ls, light, pipe, hist, mesh, box>>

\* The program-cache protocol: lights and layers change, models paint.
Next ==
  \/ \E l \in Lights \ Range(ls.lights) : mash_light_set_add_light(l)
  \/ \E l \in Lights : mash_light_set_remove_light(l)
  \/ \E p \in Pipelines, i \in LayerIdx : cogl_pipeline_set_layer_texture(p, i)
  \/ \E p \in Pipelines, i \in LayerIdx : cogl_pipeline_remove_layer(p, i)
  \/ \E m \in Models : mash_model_paint(m)

Spec == Init /\ [][Next]_vars

\* The uniform protocol: repaint ticks, colour changes, paints.
NextUniforms ==
  \/ \E l \in Lights \ Range(ls.lights) : mash_light_set_add_light(l)
  \/ mash_light_set_repaint_func
  \/ \E l \in Lights, c \in ColourValues : mash_light_set_ambient(l, c)
  \/ \E p \in Pipelines \cup {COGL_INVALID_HANDLE} : custom_begin_paint(p)
  \/ \E m \in Models : mash_model_paint(m)

SpecUniforms == InitUniforms /\ [][NextUniforms]_vars

\* Lights are added and the models paint.
NextPaint ==
  \/ \E l \in Lights \ Range(ls.lights) : mash_light_set_add_light(l)
  \/ \E m \in Models : mash_model_paint(m)

SpecSymbol == InitSymbol /\ [][NextPaint]_vars

SpecMaterial == InitMaterial /\ [][NextPaint]_vars

\* The application reconfigures the models between paints.  Each model is
\* given its own pipeline or none; NotAPipeline is a handle of another type.
NotAPipeline == 3

NextModel ==
  \/ \E l \in Lights \ Range(ls.lights) : mash_light_set_add_light(l)
  \/ \E m \in Models, v \in BOOLEAN : mash_model_set_light_set(m, v)
  \/ \E m \in Models, d \in BOOLEAN : mash_model_set_data(m, d)
  \/ \E m \in Models :
       \E p \in {COGL_INVALID_HANDLE, m, NotAPipeline} :
         mash_model_set_pipeline(m, p)
  \/ \E m \in Models : mash_model_paint(m)

InitModel == InitScene("none", DefaultKinds, DefaultGids, 0)

SpecModel == InitModel /\ [][NextModel]_vars

\* The application adds and removes layers of model 1's pipeline between
\* the paints; the models share the light set and so its cached sequence.
NextLayers ==
  \/ \E i \in 0..MaxLayer : cogl_pipeline_set_layer_texture(1, i)
  \/ \E i \in 0..MaxLayer : cogl_pipeline_remove_layer(1, i)
  \/ \E m \in Models : mash_model_paint(m)

SpecLayers == InitModel /\ [][NextLayers]_vars

\* Clutter paints every mapped actor on each frame: a model whose paint is
\* due is painted eventually.
SpecFrames ==
  SpecLayers /\ \A m \in Models : WF_vars(mash_model_paint(m))

\* Light 1 is a spot light whose cutoff the application changes.
InitSpot ==
  InitScene("none", [l \in Lights |-> IF l = 1 THEN "spot" ELSE KindOf(l)],
            DefaultGids, 0)

\* The products a light's transformations take: the identity and another.
Transforms == {1, 2}

NextSpot ==
  \/ \E l \in Lights \ Range(ls.lights) : mash_light_set_add_light(l)
  \/ \E c \in {0, 45, 90} : mash_spot_light_set_spot_cutoff(1, c)
  \/ \E l \in Lights, t \in Transforms : clutter_actor_set_transform(l, t)
  \/ mash_light_set_repaint_func
  \/ \E m \in Models : mash_model_paint(m)

SpecSpot == InitSpot /\ [][NextSpot]_vars

\* Lights are added to the light box and removed from it between paints.
NextBox ==
  \/ \E a \in (Lights \ Range(box.lights)) \cup ({OtherActor} \ box.others) :
       mash_light_box_add(a)
  \/ \E a \in Range(box.lights) \cup box.others : mash_light_box_remove(a)
  \/ \E compiles, info_log, links \in BOOLEAN :
       mash_light_box_paint(compiles, info_log, links)

\* The lights of the box are of any class.
InitBox ==
  \E kinds \in [Lights -> Kinds] : InitScene("none", kinds, DefaultGids, 0)

SpecBox == InitBox /\ [][NextBox]_vars

\* The application sets the parameters of the spot light 1 and of the point
\* light 2 of a light box whose shader compiles and links.
NextParams ==
  \/ \E l \in Lights \ Range(box.lights) : mash_light_box_add(l)
  \/ \E l \in Range(box.lights) : mash_light_box_remove(l)
  \/ mash_light_box_paint(TRUE, FALSE, TRUE)
  \/ \E l \in Lights, attenuation \in {1, 2} :
       mash_point_light_set_constant_attenuation(l, attenuation)
  \/ \E cutoff \in {45, 90} : mash_spot_light_set_spot_cutoff(1, cutoff)

SpecParams == InitSpot /\ [][NextParams]_vars

\* The two models share a light set with the one light 1, whose ambient
\* colour the application changes between paints.
NextShared ==
  \/ mash_light_set_add_light(1) /\ ls.lights = <<>>
  \/ mash_light_set_repaint_func
  \/ \E c \in ColourValues : mash_light_set_ambient(1, c)
  \/ \E m \in Models : mash_model_paint(m)

SpecShared ==
  InitScene("colour", DefaultKinds, DefaultGids, 0) /\ [][NextShared]_vars

\* The application gives model 1 one pipeline or the other between paints,
\* while lights are added and pipeline 2 gains and loses a layer.
NextSwap ==
  \/ \E l \in Lights \ Range(ls.lights) : mash_light_set_add_light(l)
  \/ \E p \in Pipelines : mash_model_set_pipeline(1, p)
  \/ cogl_pipeline_set_layer_texture(2, 0)
  \/ cogl_pipeline_remove_layer(2, 0)
  \/ mash_model_paint(1)

SpecSwap == InitModel /\ [][NextSwap]_vars

\* The lights of one set are added and removed in any order, a member and a
\* removed light included, and model 1 is painted in between.
NextMembers ==
  \/ \E l \in Lights : mash_light_set_add_light(l)
  \/ \E l \in Lights : mash_light_set_remove_light(l)
  \/ \E m \in Models : mash_model_paint(m)

SpecMembers == InitModel /\ [][NextMembers]_vars

\* The life of a light set: lights are added and removed and models paint
\* until the set is finalized; dispose may run more than once before that.
NextLife ==
  /\ ~ls.finalized
  /\ \/ \E l \in Lights : mash_light_set_add_light(l)
     \/ \E l \in Lights : mash_light_set_remove_light(l)
     \/ \E m \in Models : mash_model_paint(m)
     \/ mash_light_set_dispose
     \/ mash_light_set_finalize

SpecLife == InitModel /\ [][NextLife]_vars

\* The application sets the colours of light 1 between paints.
NextColour ==
  \/ \E l \in Lights \ Range(ls.lights) : mash_light_set_add_light(l)
  \/ mash_light_set_repaint_func
  \/ \E c \in ColourValues : mash_light_set_ambient(1, c)
  \/ \E c \in ColourValues : mash_light_set_diffuse(1, c)
  \/ \E c \in ColourValues : mash_light_set_specular(1, c)
  \/ custom_begin_paint(1)

SpecColour == InitModel /\ [][NextColour]_vars

\* The application loads one file after another into the MashData.
NextData == \E file \in Files : mash_data_load(file)

\* The data of the models is loaded from an STL file of one facet, among
\* them a facet that has no extent in y, and the models are given
\* allocations, among them the greatest width and height.
NextFit ==
  \/ \E facet \in FacetValues \cup { << <<0, 2, 0>>, <<1, 2, 1>>, <<0, 2, 0>> >> } :
       mash_data_load([suffix |-> "stl", fault |-> "none", facets |-> <<facet>>])
  \/ \E m \in Models, width, height \in {0, 4, G_MAXFLOAT} :
       mash_model_allocate(m, width, height)

SpecFit == InitModel /\ [][NextFit]_vars

SpecData == InitModel /\ [][NextData]_vars

\* ------------------------------------------------------------ program cache

\* The last handler was a paint that took the light-set branch.
LitPaint == last.op = "paint" /\ last.lit

\* The lights the program on pipeline p was generated from.
ProgramLights(p) == pipe[p].snippet.lights

\* C1: whenever a model with a light set draws, the program on its pipeline
\* was generated from exactly the lights now in the set, and the first paint
\* after a light was added or removed runs generate_shader over those lights.
C1_ProgramFromCurrentLights ==
  (LitPaint /\ last.drew) =>
    /\ pipe[last.pipeline].n_snippets > 0
    /\ ProgramLights(last.pipeline) = ls.lights
    /\ (last.pre.inval = "pending" => last.gen = ls.lights)

\* C2: a paint of the model that painted last, with no add_light, no removing
\* remove_light and no layer change on any pipeline in between, does not call
\* mash_light_set_get_pipeline and runs generate_shader on no light.
C2_QuietRepaintReusesProgram ==
  (LitPaint /\ last.pre.quiet_painter = last.who) =>
    (~last.rebuilt /\ ~last.changed /\ last.gen = <<>>)

\* C2's case: the same model painted twice in a row over a non-empty light
\* set and a pipeline with a texture layer.
C2_Witness ==
  /\ LitPaint
  /\ last.pre.quiet_painter = last.who
  /\ ls.lights # <<>>
  /\ pipe[last.pipeline].layers # {}
  /\ ~last.rebuilt

\* C3: after a light was added to or removed from the shared set, the first
\* model painted rebuilds over the current lights, and a model painted after
\* that rebuild, its own layers unchanged, draws with a program of the
\* current lights without a further generate_shader pass.
C3_InvalidationSeenByEveryModel ==
  LitPaint =>
    /\ (last.pre.inval = "pending" =>
          (last.rebuilt /\ last.gen = ls.lights))
    /\ ((last.pre.inval = "rebuilt" /\ ~last.changed) =>
          (last.gen = <<>> /\ ProgramLights(last.pipeline) = ls.lights))

\* ----------------------------------------------------------------- uniforms

ColourUploads(ups) == { u \in ups : u.what \in Range(mash_light_color_names) }

\* C4: a begin_paint that follows another with no light colour changed and no
\* shader generated in between uploads no ambient, diffuse or specular colour.
C4_SecondBeginPaintUploadsNoColour ==
  (last.began /\ last.pre.bp_quiet /\ ~last.rebuilt) =>
    ColourUploads(last.uploads) = {}

\* The names of the quantities in a set of uploads.
Uploaded(ups) == { u.what : u \in ups }

\* C5: every begin_paint on a valid pipeline uploads the normal matrix and
\* the five material properties, the shininess as the wrapper gives it,
\* whether or not uniforms_dirty is set.
C5_MaterialUploadedEveryTime ==
  last.began =>
    /\ "mash_normal_matrix" \in Uploaded(last.uploads)
    /\ Range(mash_light_set_material_properties) \subseteq Uploaded(last.uploads)
    /\ Len(mash_light_set_material_properties) = 5

\* C5's case: a begin_paint that found uniforms_dirty clear and updated no
\* light, after a program was built.
C5_Witness ==
  /\ last.began
  /\ ~last.found_dirty
  /\ ~last.rebuilt
  /\ last.upd = <<>>
  /\ ls.lights # <<>>
  /\ pipe[last.pipeline].n_snippets > 0

\* C6: begin_paint clears the uniforms_dirty flag the repaint tick raised, and
\* a further begin_paint before the next tick calls update_uniforms on no
\* light.
C6_DirtyFlagClearedByBeginPaint ==
  last.began =>
    /\ ~ls.uniforms_dirty
    /\ (last.pre.bp_since_tick => last.upd = <<>>)

\* C7: the begin_paint that follows mash_light_set_get_pipeline calls
\* update_uniforms on every light of the set, tick or no tick.
C7_RebuildLeavesUniformsStale ==
  (last.rebuilt /\ last.began) => last.upd = ls.lights

\* ------------------------------------------------------------------ symbols

\* The uniform declarations of the program on pipeline p, in order.
Declarations(p) == pipe[p].snippet.declarations

\* C8: the lights of a set are distinct actors, and whatever their actor ids
\* the program generated from them declares no uniform name twice: the
\* names one light declares are disjoint from those of every other.
C8_UniformNamesDisjoint ==
  (LitPaint /\ last.rebuilt) =>
    \A i, j \in 1..Len(Declarations(last.pipeline)) :
      i # j => Declarations(last.pipeline)[i] # Declarations(last.pipeline)[j]

\* ----------------------------------------------------------------- material

ShininessUploads(ups) == { u \in ups : u.what = "mash_material.shininess" }

\* C9: whatever the raw shininess of the material, zero and negative values
\* included, the shininess begin_paint uploads is at least 0.0001, and a raw
\* value above 0.0001 is uploaded unchanged.
C9_ShininessClamped ==
  last.began =>
    LET raw == pipe[last.pipeline].shininess
    IN /\ ShininessUploads(last.uploads) # {}
       /\ \A u \in ShininessUploads(last.uploads) :
            /\ u.val >= ShininessEpsilon
            /\ (raw > ShininessEpsilon => u.val = raw)
            /\ (raw <= ShininessEpsilon => u.val = ShininessEpsilon)

\* C9's case: a material with a negative raw shininess was painted.
C9_Witness ==
  /\ last.began
  /\ pipe[last.pipeline].shininess < 0
  /\ \E u \in last.uploads :
       u.what = "mash_material.shininess" /\ u.val = ShininessEpsilon

\* The material fields the specular terms of a program take their exponent
\* from.
ExponentOperands(snippet) ==
  { ExponentOperand(snippet.post[i]) : i \in 1..Len(snippet.post) } \ {""}

\* C10: in the program of every light class the specular exponent is
\* mash_material.shininess, the value the wrapper clamped.
C10_ExponentIsClampedShininess ==
  (LitPaint /\ last.rebuilt) =>
    ExponentOperands(pipe[last.pipeline].snippet)
      \subseteq {"mash_material.shininess"}

\* -------------------------------------------------------------------- model

\* C11: once mash_model_set_light_set was given NULL, a paint of the model
\* draws with a pipeline that carries no lighting snippet and calls neither
\* mash_light_set_get_pipeline nor mash_light_set_begin_paint.
C11_NullLightSetDisablesLighting ==
  (last.op = "paint" /\ last.drew /\ ~model[last.who].light_set) =>
    /\ pipe[last.pipeline].n_snippets = 0
    /\ ~last.lit
    /\ ~last.rebuilt
    /\ ~last.began

\* The step is a paint of a model without data, or whose pipeline is the
\* invalid handle or no pipeline.
FailedPaintStep ==
  /\ last'.op = "paint"
  /\ \/ ~model[last'.who].data
     \/ model[last'.who].pipeline = COGL_INVALID_HANDLE
     \/ model[last'.who].pipeline \notin Pipelines

\* The paint made no draw call and no light-set call and left the light
\* set, the lights and the pipelines as they were.
SilentPaintStep ==
  /\ ~last'.drew
  /\ ~last'.lit /\ ~last'.changed /\ ~last'.rebuilt /\ ~last'.began
  /\ last'.gen = <<>> /\ last'.upd = <<>> /\ last'.uploads = {}
  /\ UNCHANGED <<ls, light, pipe>>

\* C12, as the code has it: a paint of a model without data or without a
\* valid pipeline draws nothing, calls no light-set operation and leaves the
\* light set unchanged and the model unchanged but for priv->fb, which is
\* set to the draw framebuffer before the test.
C12_FailedPaintIsSilent ==
  [][FailedPaintStep =>
       /\ SilentPaintStep
       /\ model' = [model EXCEPT ![last'.who].fb = DrawFramebuffer]]_vars

\* C12 as stated: such a paint leaves the model's state unchanged too.
C12_FailedPaintChangesNothing ==
  [][FailedPaintStep => (SilentPaintStep /\ model' = model)]_vars

\* C12's case: a model without data, but with a light set that has a light
\* and with a valid pipeline, was painted.
C12_Witness ==
  /\ last.op = "paint"
  /\ ~model[last.who].data
  /\ model[last.who].light_set
  /\ model[last.who].pipeline \in Pipelines
  /\ ls.lights # <<>>
  /\ ~last.drew

\* ---------------------------------------------------------------- mesh data

\* C13: a mash_data_load of a file whose suffix is neither .ply nor .stl
\* fails with the unknown-format error; a mash_data_load that fails, for this
\* reason or because the loader failed, returns FALSE with an error set,
\* leaves priv->loaded_data exactly as it was and releases no buffer.
C13_FailedLoadKeepsOldData ==
  [][last'.op = "load" =>
       /\ last'.suffix \notin {"ply", "stl"} =>
            ~last'.ret /\ last'.error = "UNKNOWN_FORMAT"
       /\ ~last'.ret =>
            last'.error # NoError /\ mesh' = mesh /\ ~last'.freed]_vars

\* A load failed in the loader while a mesh loaded earlier was installed.
C13_Witness ==
  /\ last.op = "load" /\ ~last.ret /\ last.suffix = "stl"
  /\ mesh.loaded_data.vertices_vbo.valid

\* C14: an STL load succeeds only if the largest index is smaller than the
\* number of vertex records, in the loader's count and in the data that is
\* installed; a file that was read without an error and whose largest index
\* is greater than or equal to that number fails with the invalid-file error
\* ("Index out of range") and no buffer is released or installed.
C14_IndexOutOfRangeFailsLoad ==
  (last.op = "load" /\ last.suffix = "stl") =>
    /\ last.ret =>
         /\ last.max_index < last.n_vertices
         /\ mesh.loaded_data.max_index < mesh.loaded_data.vertices_vbo.size
    /\ (last.fault = "none" /\ last.max_index >= last.n_vertices) =>
         ~last.ret /\ last.error = "INVALID" /\ ~last.freed

\* An STL file without facets was refused while an earlier mesh was installed.
C14_Witness ==
  /\ last.op = "load" /\ last.suffix = "stl" /\ last.fault = "none"
  /\ last.max_index >= last.n_vertices /\ last.error = "INVALID"
  /\ mesh.loaded_data.vertices_vbo.valid

\* C15: after a successful STL load every coordinate of every vertex of the
\* mesh lies between mash_data_get_extents' min_vertex and max_vertex, and
\* each component of min_vertex and of max_vertex is that coordinate of some
\* vertex of the mesh.
C15_ExtentsBoundAndAttained ==
  (last.op = "load" /\ last.suffix = "stl" /\ last.ret) =>
    LET e == mash_data_get_extents(mesh)
        vs == mesh.loaded_data.prim
    IN \A j \in 1..3 :
         /\ \A i \in 1..Len(vs) :
              e.min_vertex[j] <= vs[i][j] /\ vs[i][j] <= e.max_vertex[j]
         /\ \E i \in 1..Len(vs) : vs[i][j] = e.min_vertex[j]
         /\ \E i \in 1..Len(vs) : vs[i][j] = e.max_vertex[j]

\* Two facets were loaded whose extreme coordinates lie on different
\* vertices, one of them the greatest float.
C15_Witness ==
  /\ last.op = "load" /\ last.suffix = "stl" /\ last.ret
  /\ Len(mesh.loaded_data.prim) = 3 * MaxFacets
  /\ mesh.loaded_data.prim[1] # mesh.loaded_data.prim[2]
  /\ mash_data_get_extents(mesh).max_vertex[2] = G_MAXFLOAT
  /\ mash_data_get_extents(mesh).min_vertex[1] = -1

\* ------------------------------------------------------------------ colours

\* C16: after mash_light_set_ambient, _diffuse or _specular (light, c) the
\* matching getter returns c, and when c differs from the colour stored
\* before the call the colour's dirty bit is set and the next update_uniforms
\* of the light uploads c for it.
C16_SetColourThenGet ==
  [][\A c \in ColourValues :
       LET Set(n) == IF n = MASH_LIGHT_COLOR_AMBIENT
                       THEN mash_light_set_ambient(1, c)
                     ELSE IF n = MASH_LIGHT_COLOR_DIFFUSE
                       THEN mash_light_set_diffuse(1, c)
                     ELSE mash_light_set_specular(1, c)
           Uploads == mash_light_update_uniforms(light'[1], 1).uploads
       IN \A n \in AllColors :
            Set(n) =>
              /\ light'[1].light_colors[n] = c
              /\ c # light[1].light_colors[n] =>
                   /\ n \in light'[1].dirty_uniforms
                   /\ \E u \in Uploads :
                        u.what = mash_light_color_names[n + 1] /\ u.val = c]_vars

\* ------------------------------------------------------------ layer indices

\* C17: in a paint with the light set, mash_light_set_update_layer_indices
\* returns TRUE exactly when the pipeline's layer indices, in Cogl's order,
\* are not the sequence the light set had cached before the call; when it
\* returns TRUE the program is marked stale and built again in that paint,
\* and in both cases the cache afterwards is the pipeline's sequence.
C17_ChangedIffSequencesDiffer ==
  [][(last'.op = "paint" /\ last'.lit) =>
       LET layers == SetToSortedSeq(pipe[last'.pipeline].layers)
       IN /\ last'.changed <=> (ls.layer_indices # layers)
          /\ last'.changed => (last'.rebuilt /\ ~ls'.pipeline_created)
          /\ ls'.layer_indices = layers]_vars

\* Model 2, whose pipeline has no layers, has painted, and a paint of model
\* 1 found the cached sequence different from the layers 0 and MaxLayer of
\* its own pipeline, which it was given after its first paint.
C17_Witness ==
  /\ last.op = "paint" /\ last.lit /\ last.changed /\ last.who = 1
  /\ model[2].pipeline_created
  /\ pipe[1].n_snippets = MaxSnippets
  /\ ls.layer_indices = <<0, MaxLayer>>

\* ---------------------------------------------------------------- spot cone

\* The statements of the spot light 1 in the snippet of pipeline p.
SpotShader(p) ==
  LET post == pipe[p].snippet.post
      own == { i \in 1..Len(post) : post[i].subst = light[1].unique_str }
  IN [k \in 1..Cardinality(own) |->
        post[CHOOSE i \in own : Cardinality({ j \in own : j <= i }) = k]]

\* C18: whenever a paint uploads the spot light's spot_cos_cutoff, the value
\* is the cosine of the light's cutoff angle, and for a vertex whose spot_cos
\* is exactly that value none of the statements that add light runs, the
\* ambient term included: the cone test is a strict comparison.
C18_BoundaryIsOutsideCone ==
  \A u \in last.uploads :
    (last.op = "paint" /\ u.what = "spot_cos_cutoff") =>
      /\ u.val = cosf(light[1].spot_cutoff)
      /\ LET run == Executed(SpotShader(last.pipeline), u.val, u.val)
         IN \A i \in 1..Len(run) :
              run[i].text \notin
                { "vec3 lit_color$ = gl_FrontMaterial.ambient.rgb * ambient_light$",
                  "gl_FrontColor.xyz += lit_color$ * att" }

\* The cutoff was set to 0 degrees and a paint uploaded its cosine for a
\* pipeline whose program has the spot light's shader with the cone test.
C18_Witness ==
  /\ last.op = "paint"
  /\ \E u \in last.uploads : u.what = "spot_cos_cutoff" /\ u.val = cosf(0)
  /\ \E i \in 1..Len(SpotShader(last.pipeline)) :
       SpotShader(last.pipeline)[i].text = ConeToken

\* ---------------------------------------------------------------- light box

\* C19: in every light box paint the children are painted with the program
\* handle whatever came of the build, a program is built exactly when there
\* was none, a program goes away only when a light is added or removed, and
\* a build whose shader does not compile or whose program does not link is
\* reported with a warning.
C19_CompileOrLinkFailureWarns ==
  [][/\ last'.op = "box_paint" =>
          /\ last'.drew /\ last'.pipeline = BoxProgram
          /\ box'.program = BoxProgram
          /\ last'.rebuilt <=> (box.program = COGL_INVALID_HANDLE)
          /\ ~last'.rebuilt => (last'.warnings = {} /\ box' = box)
          /\ (last'.rebuilt /\ (~box'.compiled \/ ~box'.linked)) =>
               last'.warnings # {}
     /\ (box.program # COGL_INVALID_HANDLE
           /\ box'.program = COGL_INVALID_HANDLE) =>
          box'.lights # box.lights]_vars

\* ------------------------------------------------------------- paint order

\* C20: every paint of a model that has data, a valid pipeline and a light
\* set calls mash_light_set_update_layer_indices first, then
\* mash_light_set_get_pipeline exactly when the layers had changed or the
\* model had no pipeline created, then mash_light_set_begin_paint, and the
\* render last; nothing is drawn before begin_paint.
C20_PaintStepsInOrder ==
  [][(last'.op = "paint" /\ ~mash_model_paint_fails(model[last'.who])
        /\ model[last'.who].light_set) =>
       LET c == last'.calls
           n == Len(c)
           build == last'.changed \/ ~model[last'.who].pipeline_created
       IN /\ n = IF build THEN 4 ELSE 3
          /\ c[1] = "mash_light_set_update_layer_indices"
          /\ build => c[2] = "mash_light_set_get_pipeline"
          /\ c[n - 1] = "mash_light_set_begin_paint"
          /\ c[n] = "mash_model_render_data"
          /\ last'.rebuilt = build /\ last'.began /\ last'.drew
          /\ model'[last'.who].pipeline_created]_vars

\* A model is painted after the layers of its pipeline changed, so that the
\* pipeline is made again before begin_paint.
C20_Witness ==
  /\ last.op = "paint" /\ last.lit /\ last.changed /\ last.rebuilt
  /\ pipe[last.pipeline].layers # {}
  /\ last.calls = << "mash_light_set_update_layer_indices",
                     "mash_light_set_get_pipeline",
                     "mash_light_set_begin_paint",
                     "mash_model_render_data" >>

\* ------------------------------------------------------------- light order

C22_GenerateStalesEveryLevel ==
  LET LevelsOf(k) ==
        {"base"} \cup (IF k = "directional" THEN {"directional"} ELSE {})
                 \cup (IF k \in {"point", "spot"} THEN {"point"} ELSE {})
                 \cup (IF k = "spot" THEN {"spot"} ELSE {})
      StaleLevels(lt) ==
        (IF lt.uniform_locations_dirty THEN {"base"} ELSE {})
          \cup (IF lt.dl_uniform_locations_dirty THEN {"directional"} ELSE {})
          \cup (IF lt.pl_uniform_locations_dirty THEN {"point"} ELSE {})
          \cup (IF lt.sl_uniform_locations_dirty THEN {"spot"} ELSE {})
      CachedSlots(lt) ==
        { <<mash_light_color_names[i + 1], lt.uniform_locations[i]>>
            : i \in AllColors }
          \cup (IF "directional" \in LevelsOf(lt.kind)
                THEN { <<"light_direction",
                         lt.dl_light_direction_uniform_location>> }
                ELSE {})
          \cup (IF "point" \in LevelsOf(lt.kind)
                THEN { <<"attenuation", lt.attenuation_uniform_location>>,
                       <<"light_eye_coord",
                         lt.light_eye_coord_uniform_location>> }
                ELSE {})
          \cup (IF "spot" \in LevelsOf(lt.kind)
                THEN { <<"spot_cos_cutoff", lt.spot_cos_cutoff_uniform_location>>,
                       <<"spot_exponent", lt.spot_exponent_uniform_location>>,
                       <<"spot_direction",
                         lt.sl_light_direction_uniform_location>> }
                ELSE {})
  IN \A l \in Lights :
       LET g == mash_light_generate_shader(light[l], <<>>, <<>>).light
       IN /\ StaleLevels(g) = LevelsOf(g.kind)
          /\ \A program \in Pipelines \cup {BoxProgram} :
               LET u == mash_light_update_uniforms(g, program)
                   fresh == { <<c[1], mash_light_get_uniform_location(g, program, c[1])>>
                                : c \in CachedSlots(g) }
               IN /\ StaleLevels(u.light) = {}
                  /\ CachedSlots(u.light) = fresh
                  /\ \A up \in u.uploads : <<up.what, up.slot>> \in fresh

\* A spot light of the box has its locations resolved in the box's program
\* at all three levels, after a build and an update.
C22_Witness ==
  /\ last.op = "box_paint"
  /\ \E l \in Range(last.gen) \cap Range(last.upd) :
       /\ light[l].kind = "spot"
       /\ ~light[l].uniform_locations_dirty
       /\ ~light[l].pl_uniform_locations_dirty
       /\ ~light[l].sl_uniform_locations_dirty
       /\ light[l].sl_light_direction_uniform_location =
            mash_light_get_uniform_location(light[l], BoxProgram, "spot_direction")

\* ------------------------------------------------------------ dirty colours

\* C23: the colours a begin_paint uploads are, for each light it updates,
\* the colours whose dirty bit was set before, with the value the light holds
\* for them and at the light's location for them; afterwards the light has
\* no dirty colour and its colour locations are not stale.
C23_DirtyColoursUploaded ==
  [][(last'.op = "begin_paint" /\ last'.began) =>
       /\ ColourUploads(last'.uploads) =
            UNION { { Upload(light'[l].uniform_locations[i],
                             mash_light_color_names[i + 1],
                             light[l].light_colors[i])
                        : i \in light[l].dirty_uniforms }
                    : l \in Range(last'.upd) }
       /\ \A l \in Range(last'.upd) :
            /\ light'[l].dirty_uniforms = {}
            /\ ~light'[l].uniform_locations_dirty
            /\ light'[l].light_colors = light[l].light_colors]_vars

\* A begin_paint that updated light 1 and uploaded its diffuse colour alone.
C23_Witness ==
  /\ last.op = "begin_paint" /\ last.upd = <<1>>
  /\ { u.what : u \in ColourUploads(last.uploads) } = {"diffuse_light"}

\* ------------------------------------------------------- transform uniforms

\* C24: every update_uniforms call uploads the uniforms of the light that
\* come from its transform: the direction of a directional light, the eye
\* coordinate of a point light, both for a spot light.
C24_TransformUniformsAlwaysUploaded ==
  last.began =>
    \A l \in Range(last.upd) :
      /\ light[l].kind = "directional" =>
           "light_direction" \in Uploaded(last.uploads)
      /\ light[l].kind \in {"point", "spot"} =>
           "light_eye_coord" \in Uploaded(last.uploads)
      /\ light[l].kind = "spot" =>
           "spot_direction" \in Uploaded(last.uploads)

\* --------------------------------------------------------- light parameters

C26_AtMostOneLightingSnippet ==
  \A p \in Pipelines :
    /\ pipe[p].n_snippets <= 1
    /\ ~pipe[p].stacked

\* ---------------------------------------------------------- shared lights

\* C27: once the repaint function has run and the ambient colour of light 1
\* was changed, a model that draws with the light set of light 1 draws with a
\* pipeline that was handed the colour the light holds: a begin_paint
\* uploaded it for that pipeline after the colour was last changed, whichever
\* model was painted first.
C27_EachPipelineGetsNewColour ==
  (/\ LitPaint /\ last.drew /\ last.found_dirty /\ ls.lights = <<1>>
   /\ light[1].light_colors[MASH_LIGHT_COLOR_AMBIENT] # mash_light_default_color) =>
    last.pipeline \in hist.fresh

\* -------------------------------------------------------- replaced pipeline

\* C28: a model with a light set never draws with a pipeline that has no
\* lighting snippet: after mash_model_set_pipeline gave it another pipeline,
\* the next paint runs mash_light_set_get_pipeline for that pipeline before
\* the draw.
C28_NewPipelineGetsSnippet ==
  (LitPaint /\ last.drew) =>
    /\ pipe[last.pipeline].n_snippets > 0
    /\ pipe[last.pipeline].snippet # NoSnippet

\* ------------------------------------------------------------- membership

\* C29: whatever lights are added to and removed from the set, a member and
\* a removed light included, each light occurs at most once in priv->lights,
\* and the program a paint builds declares each of its uniform names once.
C29_EachLightOccursOnce ==
  /\ \A i, j \in 1..Len(ls.lights) : i # j => ls.lights[i] # ls.lights[j]
  /\ (LitPaint /\ last.rebuilt) =>
       Cardinality(Range(Declarations(last.pipeline)))
         = Len(Declarations(last.pipeline))

\* ------------------------------------------------------------ steady state

\* C30: if from some point on the two models are only painted, both of them
\* again and again, and their pipelines have different layer indices, then
\* from some paint on no paint calls mash_light_set_get_pipeline.
C30_PaintsReachSteadyState ==
  ( /\ <>[](last.op = "paint" /\ pipe[1].layers # pipe[2].layers)
    /\ \A m \in Models : []<>(LitPaint /\ last.who = m /\ last.drew) )
    => <>[](~(LitPaint /\ last.rebuilt))

\* ------------------------------------------------------------ cached layers

\* C31: whatever sequence the light set had cached and whatever the layers
\* of the painted pipeline are, after mash_light_set_update_layer_indices the
\* cache is the pipeline's layer indices in Cogl's order; a call that returns
\* FALSE leaves the cache and priv->pipeline_created as they were.
C31_CacheFollowsPipeline ==
  [][(last'.op = "paint" /\ last'.lit) =>
       LET layers == SetToSortedSeq(pipe[last'.pipeline].layers)
           r == mash_light_set_update_layer_indices(ls, pipe[last'.pipeline].layers)
       IN /\ r.changed = last'.changed
          /\ r.priv.layer_indices = layers
          /\ ls'.layer_indices = layers
          /\ ~r.changed => /\ r.priv = ls
                           /\ ls'.layer_indices = ls.layer_indices]_vars

\* The two cases of C31: the pipeline of model 1 was built for two
\* different layer sequences, so a call returned TRUE on a cache that
\* differed, and the last paint found the cache equal to the one layer of
\* the pipeline and returned FALSE.
C31_Witness ==
  /\ last.op = "paint" /\ last.lit /\ ~last.changed /\ ~last.rebuilt
  /\ last.who = 1 /\ pipe[1].layers = {0}
  /\ ls.layer_indices = <<0>>
  /\ pipe[1].n_snippets = MaxSnippets /\ pipe[1].stacked

\* ----------------------------------------------------------------- removal

\* C32: mash_light_set_remove_light with a light that is not in the list
\* changes nothing; with a member it takes out one entry that is the light,
\* the other entries keep their order, that light loses one reference and
\* the program is marked stale.
C32_RemoveTakesOneEntry ==
  [][last'.op = "remove_light" =>
       LET l == last'.who
           old == ls.lights
       IN IF l \notin Range(old)
          THEN ls' = ls /\ light' = light /\ pipe' = pipe /\ model' = model
          ELSE /\ \E i \in 1..Len(old) :
                    /\ old[i] = l
                    /\ ls'.lights = [j \in 1..(Len(old) - 1) |->
                                       IF j < i THEN old[j] ELSE old[j + 1]]
               /\ light' = [light EXCEPT ![l].ref_count = @ - 1]
               /\ ~ls'.pipeline_created]_vars

\* Light 1 was in the list twice and one of the two entries was removed.
C32_Witness ==
  /\ last.op = "remove_light" /\ last.who = 1
  /\ ls.lights = <<1>>
  /\ light[1].ref_count = 2

\* --------------------------------------------------------------- spot block

\* C33: in a program generated from a list with a spot light, the main
\* source holds for each light exactly the body block of its class, so for
\* the spot light the spot block and no point block, the blocks of lights
\* generated before the spot light are still there, and the declarations of
\* the spot light are those of the base, the point and the spot level.
C33_SpotBlockReplacesPointBlock ==
  (LitPaint /\ last.rebuilt) =>
    LET snippet == pipe[last.pipeline].snippet
        Of(l, src) == SelectSeq(src, LAMBDA t : t.subst = light[l].unique_str)
        Block(l) == IF light[l].kind = "spot" THEN mash_spot_light_shader
                    ELSE IF light[l].kind = "point" THEN mash_point_light_shader
                    ELSE mash_directional_light_shader
        Texts(src) == [i \in 1..Len(src) |-> src[i].text]
    IN \A l \in Range(snippet.lights) :
         /\ Texts(Of(l, snippet.post)) = Texts(Block(l))
         /\ light[l].kind = "spot" =>
              Texts(Of(l, snippet.declarations)) =
                << "ambient_light", "diffuse_light", "specular_light",
                   "attenuation", "light_eye_coord",
                   "spot_cos_cutoff", "spot_exponent", "spot_direction" >>

\* A program was generated from the point light 2 and then the spot light 1.
C33_Witness ==
  /\ LitPaint /\ last.rebuilt /\ last.gen = <<2, 1>>
  /\ light[1].kind = "spot" /\ light[2].kind = "point"
  /\ Len(pipe[last.pipeline].snippet.post) >
       Len(mash_point_light_shader) + Len(mash_spot_light_shader)

\* ------------------------------------------------------------- box program

\* C34: adding or removing a child of the light box drops the cached program
\* when the child is a light and leaves it alone when it is not; the program
\* is dropped in no other step, and a paint that finds a program cached uses
\* it and calls generate_shader on no light.
C34_ProgramDroppedOnlyForLights ==
  [][/\ last'.op \in {"box_add", "box_remove"} =>
          IF last'.who \in Lights
          THEN box'.program = COGL_INVALID_HANDLE
          ELSE box'.program = box.program
     /\ (box.program # COGL_INVALID_HANDLE
           /\ box'.program = COGL_INVALID_HANDLE) =>
          (last'.op \in {"box_add", "box_remove"} /\ last'.who \in Lights)
     /\ (last'.op = "box_paint" /\ box.program # COGL_INVALID_HANDLE) =>
          /\ ~last'.rebuilt /\ last'.gen = <<>>
          /\ box'.program = box.program
          /\ last'.pipeline = box.program]_vars

\* A child that is no light was added to a box with a light and a program.
C34_Witness ==
  /\ last.op = "box_add" /\ last.who = OtherActor
  /\ box.lights # <<>> /\ box.program # COGL_INVALID_HANDLE

\* -------------------------------------------------------- spot attenuation

\* C35: for a vertex inside the cone the spot light's shader adds
\* lit_color * pow (spot_cos, spot_exponent) divided by
\* dot (attenuation, (1, d, d * d)), so with a positive linear or quadratic
\* coefficient it adds no more at a greater distance d.
C35_SpotAttenuationDivides ==
  (LitPaint /\ last.rebuilt /\ 1 \in Range(ls.lights)) =>
    \A k, lin, quad \in 0..1, d \in 1..2, spot_pow \in 1..2 :
      (k + lin + quad > 0) =>
        LET shader == SpotShader(last.pipeline)
            near == Contribution(shader, 1, <<k, lin, quad>>, d, spot_pow)
            far == Contribution(shader, 1, <<k, lin, quad>>, d + 1, spot_pow)
            dot == k + lin * d + quad * d * d
        IN /\ near.num * dot = spot_pow * near.den
           /\ far.num * near.den <= near.num * far.den

\* --------------------------------------------------------- fit to allocation

\* C36, as stated: after mash_model_allocate on a model with data that fits
\* its allocation the scale is the smaller of width / model width and
\* height / model height, an axis of extent 0 not counting, and 0 when both
\* extents are 0.
C36_ScaleIsSmallerQuotient ==
  (last.op = "allocate" /\ model[last.who].fit_to_allocation
     /\ model[last.who].data) =>
    LET e == mash_data_get_extents(mesh)
        ext == [j \in 1..2 |-> e.max_vertex[j] - e.min_vertex[j]]
        axes == { j \in 1..2 : ext[j] # 0 }
        q == [j \in axes |->
                [num |-> model[last.who].allocation[j], den |-> ext[j]]]
        scale == model[last.who].scale
    IN IF axes = {} THEN scale.num = 0
       ELSE \E j \in axes :
              /\ scale.num * q[j].den = q[j].num * scale.den
              /\ \A k \in axes : ~QuotientLess(q[k], q[j])

\* C36, amended: the same, provided the smaller quotient is less than
\* G_MAXFLOAT; a smaller quotient that reaches G_MAXFLOAT gives the scale 0.
C36_ScaleIsSmallerQuotientBelowMax ==
  (last.op = "allocate" /\ model[last.who].fit_to_allocation
     /\ model[last.who].data) =>
    LET e == mash_data_get_extents(mesh)
        ext == [j \in 1..2 |-> e.max_vertex[j] - e.min_vertex[j]]
        axes == { j \in 1..2 : ext[j] # 0 }
        q == [j \in axes |->
                [num |-> model[last.who].allocation[j], den |-> ext[j]]]
        scale == model[last.who].scale
    IN IF axes = {} THEN scale.num = 0
       ELSE \E j \in axes :
              /\ \A k \in axes : ~QuotientLess(q[k], q[j])
              /\ IF QuotientLess(q[j], [num |-> G_MAXFLOAT, den |-> 1])
                 THEN scale.num * q[j].den = q[j].num * scale.den
                 ELSE scale.num = 0

\* The y extent of the model is 0 and its x extent is 1, and the allocation
\* of 4 by 4 gave it the scale 4 / 1.
C36_Witness ==
  /\ last.op = "allocate" /\ last.who = 1 /\ model[1].allocation = <<4, 4>>
  /\ mesh.loaded_data.min_vertex[2] = mesh.loaded_data.max_vertex[2]
  /\ mesh.loaded_data.max_vertex[1] - mesh.loaded_data.min_vertex[1] = 1
  /\ model[1].scale = [num |-> 4, den |-> 1]

\* --------------------------------------------------------------- references

\* C37: the light set releases no reference on a pipeline that it did not
\* take: for every pipeline the references it took are at least those it
\* released, finalize included.
C37_ReleasesOnlyPipelineRefsTaken ==
  \A p \in Pipelines : hist.held[p] >= 0

\* C38: the light set holds one reference on a light for each entry of its
\* list that is the light; dispose releases them all, empties the list and
\* removes the repaint function, and a dispose after that releases nothing.
C38_OneReferencePerEntry ==
  [][/\ \A l \in Lights :
          light'[l].ref_count - 1 =
            Cardinality({ i \in 1..Len(ls'.lights) : ls'.lights[i] = l })
     /\ last'.op = "dispose" =>
          /\ ls'.lights = <<>> /\ ls'.repaint_func_id = 0
          /\ Len(last'.calls) =
               Len(ls.lights) + (IF ls.repaint_func_id # 0 THEN 1 ELSE 0)
          /\ (ls.lights = <<>>) => (light' = light)]_vars

\* A dispose released the references of a full list and removed the
\* repaint function.
C38_Witness ==
  /\ last.op = "dispose" /\ Len(last.calls) = MaxLights + 1
  /\ ls.lights = <<>> /\ \A l \in Lights : light[l].ref_count = 1

\* ---------------------------------------------------------- light matrix

\* The uniforms a light's matrix goes into.
MatrixUniforms == {"light_eye_coord", "light_direction", "spot_direction"}

\* C39: within one update_uniforms call on a light every matrix handed out by
\* mash_light_get_modelview_matrix is the product of the transformations of
\* the light and its ancestors as they are during the call.  The call on any
\* light, in whatever state its cache is, uploads no other matrix and leaves
\* that product cached with the flag cleared; after a paint that updated the
\* lights the matrices uploaded are the products of the lights updated.
C39_MatrixIsCurrentTransform ==
  /\ \A l \in Lights, program \in Pipelines :
       LET u == mash_light_update_uniforms(light[l], program)
       IN /\ \A up \in u.uploads :
               up.what \in MatrixUniforms => up.val = light[l].transform
          /\ u.light.modelview_matrix = light[l].transform
          /\ ~u.light.modelview_matrix_dirty
  /\ LitPaint /\ last.found_dirty =>
       /\ { up.val : up \in { x \in last.uploads : x.what \in MatrixUniforms } }
            = { light[l].transform : l \in Range(last.upd) }
       /\ \A l \in Range(last.upd) :
            /\ light[l].modelview_matrix = light[l].transform
            /\ ~light[l].modelview_matrix_dirty

\* The spot light 1 was moved and a paint then updated it: the matrix it
\* cached and the one uploaded are those of its new place.
C39_Witness ==
  /\ LitPaint /\ last.found_dirty /\ 1 \in Range(last.upd)
  /\ light[1].kind = "spot" /\ light[1].transform = 2
  /\ light[1].modelview_matrix = 2
  /\ \E up \in last.uploads : up.what = "light_eye_coord" /\ up.val = 2
  /\ \A l \in Range(last.upd) \ {1} : light[l].transform = 1

====
